---- MODULE Spec2Model ----
(***************************************************************************)
(* Model of the batch media pipeline of the Digital Toolbox: the image     *)
(* resizer (BatchImageResizer), the video frame extractor                  *)
(* (VideoFrameExtractor) and the shell state they publish into.            *)
(*                                                                         *)
(* Strings are sequences of one-character strings.  JavaScript numbers     *)
(* that leave the integers are IEEE-754 doubles: a 53-bit significand kept *)
(* as a bit sequence (most significant bit first) and a binary scale.      *)
(* The arithmetic is exact for dimensions below 2^15.                      *)
(***************************************************************************)
EXTENDS Integers, Sequences, FiniteSets, TLC

(***************************************************************************)
(* Bounds of the model.                                                    *)
(***************************************************************************)
MaxDim == 22
MaxFiles == 2
MaxRuns == 2
MaxTime == 1
MaxVideos == 2
MaxTimers == 3
MaxRequests == 2
MaxColumns == 20
ClientColumns == 2

(***************************************************************************)
(* IEEE-754 double arithmetic, as far as the resampler uses it.            *)
(* A double is [bits |-> 53 bits, s |-> n]: value = bits * 2^(-s).         *)
(***************************************************************************)
MantissaBits == 53

RECURSIVE Pow2(_)
Pow2(k) == IF k = 0 THEN 1 ELSE 2 * Pow2(k - 1)

RECURSIVE Pow2Mod(_, _)
\* 2^e modulo m, by squaring
Pow2Mod(e, m) ==
  IF e = 0 THEN 1 % m
  ELSE LET h == Pow2Mod(e \div 2, m)
       IN  (((h * h) % m) * (IF e % 2 = 1 THEN 2 ELSE 1)) % m

RECURSIVE BitLength(_)
BitLength(n) == IF n = 0 THEN 0 ELSE 1 + BitLength(n \div 2)

\* the low len bits of n, most significant first
BitsOf(n, len) == [i \in 1..len |-> (n \div Pow2(len - i)) % 2]

RECURSIVE FromBits(_)
FromBits(bits) ==
  IF bits = <<>> THEN 0
  ELSE 2 * FromBits(SubSeq(bits, 1, Len(bits) - 1)) + bits[Len(bits)]

AnySet(bits) == \E i \in 1..Len(bits) : bits[i] = 1

\* bits + 1; a carry out of the top bit lengthens the sequence by one
Incr(bits) ==
  LET zeros == {i \in 1..Len(bits) : bits[i] = 0}
  IN  IF zeros = {}
      THEN <<1>> \o [i \in 1..Len(bits) |-> 0]
      ELSE LET z == CHOOSE i \in zeros : \A j \in zeros : j <= i
           IN  [i \in 1..Len(bits) |->
                  IF i < z THEN bits[i] ELSE IF i = z THEN 1 ELSE 0]

\* round-to-nearest, ties-to-even of the significand kept / dropped
\* guard: the first dropped bit; sticky: some later dropped bit is set
RoundNearestEven(kept, s, guard, sticky) ==
  LET up == guard = 1 /\ (sticky \/ kept[Len(kept)] = 1)
      r  == IF up THEN Incr(kept) ELSE kept
  IN  IF Len(r) > Len(kept)
      THEN [bits |-> SubSeq(r, 1, Len(kept)), s |-> s - 1]
      ELSE [bits |-> r, s |-> s]

RECURSIVE Shift(_, _)
\* least k >= 1 with a * 2^k >= b, for 0 < a < b
Shift(a, b) == IF 2 * a >= b THEN 1 ELSE 1 + Shift(2 * a, b)

\* bit i after the leading bit of the quotient a * 2^k / b (in [1, 2)):
\* floor(a * 2^(k+i) / b) mod 2
QuotientBit(a, b, k, i) ==
  IF (a * Pow2Mod(k + i, 2 * b)) % (2 * b) >= b THEN 1 ELSE 0

\* the double a / b for integers 0 < a < b
FloatDiv(a, b) ==
  LET k  == Shift(a, b)
      m  == MantissaBits - 1
      g  == QuotientBit(a, b, k, m + 1)
      st == (a * Pow2Mod(k + m + 1, b)) % b # 0
  IN  RoundNearestEven(<<1>> \o [i \in 1..m |-> QuotientBit(a, b, k, i)],
                       k + m, g, st)

\* multiplication works on limbs of LimbBits bits
LimbBits == 13

\* bits as limbs, most significant first (the top limb may be short)
Limbs(bits) ==
  LET n   == (Len(bits) + LimbBits - 1) \div LimbBits
      pad == n * LimbBits - Len(bits)
  IN  [l \in 1..n |->
         FromBits(SubSeq(bits, IF l = 1 THEN 1 ELSE (l - 1) * LimbBits - pad + 1,
                         l * LimbBits - pad))]

RECURSIVE MulLimbs(_, _, _)
\* the limbs of w * limbs + carry; the top limb takes the last carry
MulLimbs(limbs, w, carry) ==
  IF limbs = <<>> THEN <<carry>>
  ELSE LET n == Len(limbs)
           t == w * limbs[n] + carry
       IN  MulLimbs(SubSeq(limbs, 1, n - 1), w, t \div Pow2(LimbBits))
             \o <<t % Pow2(LimbBits)>>

\* a bit sequence without its leading zeros
StripLeadingZeros(bits) ==
  LET ones == {i \in 1..Len(bits) : bits[i] = 1}
  IN  IF ones = {} THEN <<>>
      ELSE SubSeq(bits, CHOOSE i \in ones : \A j \in ones : i <= j, Len(bits))

\* the exact product w * bits, as a bit sequence without leading zeros
MulBits(bits, w) ==
  LET p    == MulLimbs(Limbs(bits), w, 0)
      top  == BitLength(p[1])
      rest == Len(p) - 1
  IN  StripLeadingZeros(
        BitsOf(p[1], top)
          \o [i \in 1..(rest * LimbBits) |->
                (p[2 + (i - 1) \div LimbBits]
                   \div Pow2(LimbBits - 1 - ((i - 1) % LimbBits))) % 2])

\* the double w * f for an integer w >= 1 and a double f
FloatMulInt(w, f) ==
  LET p    == MulBits(f.bits, w)
      drop == Len(p) - MantissaBits
  IN  IF drop = 0 THEN [bits |-> p, s |-> f.s]
      ELSE RoundNearestEven(SubSeq(p, 1, MantissaBits), f.s - drop,
                            p[MantissaBits + 1],
                            AnySet(SubSeq(p, MantissaBits + 2, Len(p))))

\* a JavaScript number as integer part and fraction bits
IntNum(n) == [int |-> n, frac |-> <<>>]

ToFixed(f) ==
  IF f.s >= MantissaBits
  THEN [int |-> 0, frac |-> [i \in 1..(f.s - MantissaBits) |-> 0] \o f.bits]
  ELSE [int  |-> FromBits(SubSeq(f.bits, 1, MantissaBits - f.s)),
        frac |-> SubSeq(f.bits, MantissaBits - f.s + 1, MantissaBits)]

\* Math.floor in the place of Math.round
MathFloor(x) == x.int

\* Math.round: to the nearest integer, ties toward +infinity
MathRound(x) == x.int + (IF x.frac # <<>> /\ x.frac[1] = 1 THEN 1 ELSE 0)

(***************************************************************************)
(* The resampler: target size under a max-height constraint.               *)
(***************************************************************************)
\* resizeImage, img.onload: the size drawn and the size reported
resizeImageSize(imgWidth, imgHeight, maxHeight) ==
  LET scaled == imgHeight > maxHeight
      width  == IF scaled
                THEN ToFixed(FloatMulInt(imgWidth, FloatDiv(maxHeight, imgHeight)))
                ELSE IntNum(imgWidth)
      height == IF scaled THEN IntNum(maxHeight) ELSE IntNum(imgHeight)
  IN  [width |-> MathRound(width), height |-> MathRound(height)]

\* extractFrame: the same computation on videoWidth / videoHeight
extractFrameSize(videoWidth, videoHeight, maxHeight) ==
  LET scaled      == videoHeight > maxHeight
      finalWidth  == IF scaled
                     THEN ToFixed(FloatMulInt(videoWidth, FloatDiv(maxHeight, videoHeight)))
                     ELSE IntNum(videoWidth)
      finalHeight == IF scaled THEN IntNum(maxHeight) ELSE IntNum(videoHeight)
  IN  [width |-> MathRound(finalWidth), height |-> MathRound(finalHeight)]

\* canvas.width = width, canvas.height = height: the conversion to an
\* unsigned long drops the fraction
resizeImageCanvas(imgWidth, imgHeight, maxHeight) ==
  LET scaled == imgHeight > maxHeight
      width  == IF scaled
                THEN ToFixed(FloatMulInt(imgWidth, FloatDiv(maxHeight, imgHeight)))
                ELSE IntNum(imgWidth)
      height == IF scaled THEN IntNum(maxHeight) ELSE IntNum(imgHeight)
  IN  [width |-> width.int, height |-> height.int]

\* extractFrame: canvas.width = finalWidth, canvas.height = finalHeight
extractFrameCanvas(videoWidth, videoHeight, maxHeight) ==
  LET scaled      == videoHeight > maxHeight
      finalWidth  == IF scaled
                     THEN ToFixed(FloatMulInt(videoWidth, FloatDiv(maxHeight, videoHeight)))
                     ELSE IntNum(videoWidth)
      finalHeight == IF scaled THEN IntNum(maxHeight) ELSE IntNum(videoHeight)
  IN  [width |-> finalWidth.int, height |-> finalHeight.int]

\* undefined, where a number is expected
NoNumber == -1

\* a quality that follows the compression toggle whatever the format
QualityOfToggle(format, enableCompression) ==
  IF enableCompression THEN 70 ELSE 100

\* the quality argument of canvas.toBlob, in percent
Quality(format, enableCompression) ==
  IF format = "jpeg" THEN (IF enableCompression THEN 70 ELSE 100) ELSE NoNumber

(***************************************************************************)
(* Strings.                                                                *)
(***************************************************************************)
IsSpace(c) == c = " "

RECURSIVE TrimStart(_)
TrimStart(s) ==
  IF s # <<>> /\ IsSpace(s[1]) THEN TrimStart(Tail(s)) ELSE s

RECURSIVE TrimEnd(_)
TrimEnd(s) ==
  IF s # <<>> /\ IsSpace(s[Len(s)]) THEN TrimEnd(SubSeq(s, 1, Len(s) - 1)) ELSE s

\* String.prototype.trim
Trim(s) == TrimEnd(TrimStart(s))

Digits == <<"0", "1", "2", "3", "4", "5", "6", "7", "8", "9">>

RECURSIVE NumberToString(_)
\* the decimal digits of a natural number, as template literals print it
NumberToString(n) ==
  IF n < 10 THEN <<Digits[n + 1]>>
  ELSE NumberToString(n \div 10) \o <<Digits[(n % 10) + 1]>>

\* displayName.replace(/\.[^/.]+$/, ""): drop a final ".ext" whose ext is
\* non-empty and holds neither "." nor "/"
StripExtension(s) ==
  LET dots == {i \in 1..Len(s) :
                 /\ s[i] = "."
                 /\ i < Len(s)
                 /\ \A j \in (i + 1)..Len(s) : s[j] \notin {".", "/"}}
  IN  IF dots = {} THEN s
      ELSE SubSeq(s, 1, (CHOOSE i \in dots : TRUE) - 1)

\* newExtension
NewExtension(outputFormat) ==
  IF outputFormat = "jpeg" THEN <<".", "j", "p", "g">> ELSE <<".", "p", "n", "g">>

\* the index of the loop used as it is, without the + 1
ResizerDisplayNameZeroBased(newName, i, displayName, outputFormat) ==
  (IF Trim(newName) # <<>>
   THEN Trim(newName) \o <<"-">> \o NumberToString(i)
   ELSE StripExtension(displayName))
  \o NewExtension(outputFormat)

\* BatchImageResizer.handleProcess: newDisplayName of the item at 0-based index i
ResizerDisplayName(newName, i, displayName, outputFormat) ==
  LET baseName == IF Trim(newName) # <<>>
                  THEN Trim(newName) \o <<"-">> \o NumberToString(i + 1)
                  ELSE StripExtension(displayName)
  IN  baseName \o NewExtension(outputFormat)

\* VideoFrameExtractor.handleProcess: newDisplayName of the frame at 0-based index i
FrameDisplayName(newName, i, outputFormat) ==
  LET baseName == IF Trim(newName) # <<>>
                  THEN Trim(newName) \o <<"-">> \o NumberToString(i + 1)
                  ELSE <<"f", "r", "a", "m", "e", "-">> \o NumberToString(i + 1)
  IN  baseName \o NewExtension(outputFormat)

(***************************************************************************)
(* State.  The shell keeps one state object per tool (toolStates[key]);    *)
(* a tool publishes a partial state with onChangeState, which the shell    *)
(* merges into the object.  The two tools do not share state, so a         *)
(* behaviour follows one of them: tool is the type field of its state.     *)
(***************************************************************************)
VARIABLES
  tool,               \* state.type: "image-resizer" or "video-extractor"
  files,              \* BatchImageResizerState.files
  newName,            \* state.newName
  outputFormat,       \* state.outputFormat
  resolution,         \* state.resolution
  compression,        \* state.compression
  isProcessing,       \* state.isProcessing
  videoFile,          \* VideoFrameExtractorState.videoFile (NoFile: undefined)
  markers,            \* VideoFrameExtractorState.markers
  extractedFrames,    \* VideoFrameExtractorState.extractedFrames
  isPreviewCollapsed, \* VideoFrameExtractorState.isPreviewCollapsed
  currentTime,        \* VideoFrameExtractor: useState currentTime
  runs,               \* the calls of handleProcess, in the order they started
  uploads,            \* the calls of handleFileChange awaiting Promise.all
  nextId,             \* ids handed out so far
  calc,               \* one call of the resampler: arguments and result
  videoTime,          \* the <video> element: currentTime once the last seek settled
  seekTarget,         \* the <video> element: the position of the pending seek
  zipBlob,            \* handleDownload: the container last handed to the browser
  objectUrls,         \* the object URLs created and not revoked
  videoUrl,           \* VideoFrameExtractorState.videoUrl (NoUrl: undefined)
  mounted,            \* the component of the tool is mounted
  urlCount,           \* video URLs created so far
  toolStates,         \* App: toolStates, the state object of every tab key
  openTools,          \* App: openTools
  visibleTools,       \* App: visibleTools
  closingTools,       \* App: closingTools
  timers,             \* App: the setTimeout calls pending, in the order they started
  gitMounted,         \* GitManager: the component is mounted
  gitRepoInfo,        \* GitManagerState.repoInfo is set
  gitCurrentPath,     \* GitManagerState.currentPath
  gitIsLoading,       \* GitManagerState.isLoading
  gitError,           \* GitManagerState.error is set
  gitFiles,           \* GitManagerState.files
  gitRequests,        \* GitManager: the paths of the fetches in flight
  columns,            \* App: the columns state
  pendingColumns,     \* App: the batches of the setColumns updates not yet rendered
  effectPending,      \* App: the effect on [columns] has not run yet
  isLoadingRef,       \* App: isLoadingRef.current
  nextColumnIdRef,    \* App: nextColumnIdRef.current
  isMobile,           \* useIsMobile()
  scrollPos,          \* the scroll position of the container, in columns
  gearRotation,       \* App: gearRotation, in fifths
  screenMounted,        \* ScreenSizeChecker: the component is mounted
  screenUrl,            \* ScreenSizeCheckerState.url
  screenDisplayUrl,     \* ScreenSizeCheckerState.displayUrl
  screenSelectedDevice, \* ScreenSizeCheckerState.selectedDevice
  screenOrientation,    \* ScreenSizeCheckerState.orientation
  screenIsLoading,      \* ScreenSizeCheckerState.isLoading
  iframeSrc,            \* the src attribute of the iframe element
  iframeLoading,        \* the iframe is loading the page of its src
  resampled           \* the sizes resizeImage and extractFrame arrive at, for
                      \* every picture and maximum height: the arithmetic is
                      \* worked out once, it does not depend on the state

vars == <<tool, files, newName, outputFormat, resolution, compression, isProcessing,
          videoFile, markers,
          extractedFrames, isPreviewCollapsed, currentTime, runs,
          uploads, nextId, calc, videoTime, seekTarget, zipBlob,
          objectUrls, videoUrl, mounted, urlCount, toolStates, openTools,
          visibleTools, closingTools, timers, gitMounted, gitRepoInfo,
          gitCurrentPath, gitIsLoading, gitError, gitFiles, gitRequests,
          columns, pendingColumns, effectPending, isLoadingRef, nextColumnIdRef,
          isMobile, scrollPos, gearRotation, screenMounted, screenUrl,
          screenDisplayUrl, screenSelectedDevice, screenOrientation,
          screenIsLoading, iframeSrc, iframeLoading, resampled>>

resizerVars   == <<files, uploads, nextId>>
extractorVars == <<videoFile, markers, extractedFrames, isPreviewCollapsed,
                   currentTime>>
\* the <video> element the preview renders
elementVars   == <<videoTime, seekTarget>>
\* what the steps of the tools are framed with when a specification leaves
\* it out of account
layerVars     == <<videoTime, seekTarget, zipBlob, objectUrls, videoUrl, mounted,
                   urlCount, toolStates, openTools, visibleTools, closingTools,
                   timers, gitMounted, gitRepoInfo, gitCurrentPath, gitIsLoading,
                   gitError, gitFiles, gitRequests, columns, pendingColumns,
                   effectPending, isLoadingRef, nextColumnIdRef, isMobile,
                   scrollPos, gearRotation, screenMounted, screenUrl,
                   screenDisplayUrl, screenSelectedDevice, screenOrientation,
                   screenIsLoading, iframeSrc, iframeLoading, resampled>>
\* the Git file browser
gitVars       == <<gitMounted, gitRepoInfo, gitCurrentPath, gitIsLoading, gitError,
                   gitFiles, gitRequests>>
\* the shell: the states of the tabs and which tabs are shown
shellVars     == <<toolStates, openTools, visibleTools, closingTools, timers>>
\* the shell and the tools the specifications of the two batch tools leave
\* out of account
\* the grid of the application
gridVars      == <<columns, pendingColumns, effectPending, isLoadingRef,
                   nextColumnIdRef, isMobile, scrollPos, gearRotation>>
\* the screen size checker
screenVars    == <<screenMounted, screenUrl, screenDisplayUrl, screenSelectedDevice,
                   screenOrientation, screenIsLoading, iframeSrc, iframeLoading>>
appVars       == <<shellVars, gitVars, gridVars, screenVars>>

\* the keys of the tabs of the image resizer and of the frame extractor
Keys == {"item-0-0", "item-0-1"}
\* the object URLs and the mounting of the component
urlVars       == <<objectUrls, videoUrl, mounted, urlCount>>

\* videoUrl undefined
NoUrl == <<"undefined", 0, 0>>
\* the download
downloadVars  == <<zipBlob>>

\* no container was built
NoZip == [built |-> FALSE, files |-> <<>>]

\* no seek is pending
NoSeek == -1

NoFile == "undefined"
\* processedBlob undefined
NoBlob == [type |-> "undefined"]
\* no size computed
NoSize == [width |-> 0, height |-> 0]
\* the resampler has not been called
NoCalc == [fn |-> "none", width |-> 0, height |-> 0, maxHeight |-> 0, out |-> NoSize]

\* inputs of the model
FileA == <<"a", ".", "b", ".", "g">>
FileC == <<"c">>
Selections == {<<FileA>>, <<FileA, FileC>>}
BaseNames == {<<>>, <<" ", "t">>}
OutputFormats == {"jpeg", "png"}
\* the options of the resolution select
Resolutions == {1080, 720, 480, 360}
Times == 0..MaxTime

\* defaultResizerState / defaultExtractorState
defaultNewName == <<>>
defaultOutputFormat == "jpeg"
defaultResolution == 720
defaultCompression == TRUE

\* the pictures behind the file names: img.width, img.height, file.size
Picture(file) ==
  IF file = FileA THEN [width |-> 1600, height |-> 1200, size |-> 700000]
  ELSE [width |-> 640, height |-> 480, size |-> 90000]

\* the arithmetic of resizeImage for every picture and maximum height
Resized ==
  [file \in {FileA, FileC} |->
     [maxHeight \in Resolutions |->
        LET img == Picture(file)
        IN  [canvas |-> resizeImageCanvas(img.width, img.height, maxHeight),
             size   |-> resizeImageSize(img.width, img.height, maxHeight)]]]

\* video.videoWidth, video.videoHeight
VideoPicture == [width |-> 1920, height |-> 1080]

\* the arithmetic of extractFrame for every maximum height
Extracted ==
  [maxHeight \in Resolutions |->
     [canvas |-> resizeImageCanvas(VideoPicture.width, VideoPicture.height,
                                   maxHeight),
      size   |-> extractFrameSize(VideoPicture.width, VideoPicture.height,
                                  maxHeight)]]

(***************************************************************************)
(* The grid of the application.                                            *)
(***************************************************************************)
itemsPerColumn == 3
initialColumnsCount == 8
columnsToAdd == 4

\* `item-${id}-${itemIndex}`, as the sequence of its characters
ItemKey(id, itemIndex) ==
  <<"i", "t", "e", "m", "-">> \o NumberToString(id) \o <<"-">>
    \o NumberToString(itemIndex)

generateColumns(count, startIndex) ==
  [i \in 1..count |->
     [id    |-> startIndex + (i - 1),
      items |-> [itemIndex \in 1..itemsPerColumn |->
                   [key |-> ItemKey(startIndex + (i - 1), itemIndex - 1)]]]]

(***************************************************************************)
(* The screen size checker.  A URL is the sequence of its parts, the       *)
(* scheme being one part.                                                  *)
(***************************************************************************)
defaultScreenSizeCheckerState ==
  [url            |-> <<"https://", "iammazharul.com">>,
   displayUrl     |-> <<"https://", "iammazharul.com">>,
   selectedDevice |-> "iPhone13ProMax",
   orientation    |-> "portrait",
   isLoading      |-> TRUE]

\* no iframe element
NoSrc == <<"undefined">>

\* the state of a tool whose component was just constructed
Constructed ==
  /\ files = <<>>
  /\ newName = defaultNewName
  /\ outputFormat = defaultOutputFormat
  /\ resolution = defaultResolution
  /\ compression = defaultCompression
  /\ isProcessing = FALSE
  /\ videoFile = NoFile
  /\ markers = <<>>
  /\ extractedFrames = <<>>
  /\ isPreviewCollapsed = FALSE
  /\ currentTime = 0
  /\ runs = <<>>
  /\ uploads = {}
  /\ nextId = 0
  /\ videoTime = 0
  /\ seekTarget = NoSeek
  /\ zipBlob = NoZip
  /\ objectUrls = {}
  /\ videoUrl = NoUrl
  /\ mounted = TRUE
  /\ urlCount = 0
  /\ toolStates = [k \in Keys |-> <<>>]
  /\ openTools = <<>>
  /\ visibleTools = <<>>
  /\ closingTools = <<>>
  /\ timers = <<>>
  /\ gitMounted = FALSE
  /\ gitRepoInfo = FALSE
  /\ gitCurrentPath = <<>>
  /\ gitIsLoading = FALSE
  /\ gitError = FALSE
  /\ gitFiles = <<>>
  /\ gitRequests = <<>>
  /\ columns = generateColumns(initialColumnsCount, 0)
  /\ pendingColumns = <<>>
  /\ effectPending = FALSE
  /\ isLoadingRef = FALSE
  /\ nextColumnIdRef = initialColumnsCount
  /\ isMobile = FALSE
  /\ scrollPos = 0
  /\ gearRotation = 0
  /\ screenMounted = FALSE
  /\ screenUrl = defaultScreenSizeCheckerState.url
  /\ screenDisplayUrl = defaultScreenSizeCheckerState.displayUrl
  /\ screenSelectedDevice = defaultScreenSizeCheckerState.selectedDevice
  /\ screenOrientation = defaultScreenSizeCheckerState.orientation
  /\ screenIsLoading = defaultScreenSizeCheckerState.isLoading
  /\ iframeSrc = NoSrc
  /\ iframeLoading = FALSE
  /\ resampled = [image |-> Resized, video |-> Extracted]

Init ==
  /\ tool \in {"image-resizer", "video-extractor"}
  /\ Constructed
  /\ calc = NoCalc

(***************************************************************************)
(* A run of handleProcess.  status[p] is the stage of the item at          *)
(* position p of the list the run iterates over (p = i + 1):               *)
(*   "waiting"    not reached by the loop                                  *)
(*   "processing" image: resizeImage is pending (read, decode, encode)     *)
(*   "seeking"    video: the seek to the marker is pending                 *)
(*   "encoding"   video: the frame is drawn, canvas.toBlob is pending      *)
(*   "ok"         the item was processed, "failed" it was skipped          *)
(* A run that returned keeps its final status only: its locals are gone.   *)
(***************************************************************************)
InFlight == {"processing", "seeking", "encoding"}

Returned(status) == [done |-> TRUE, status |-> status]

\* a loop without await: every remaining item is started at once
StartAllItems(status, p, stage) ==
  [q \in DOMAIN status |-> IF q >= p THEN stage ELSE status[q]]

\* the for loop reaches position p: the body starts the item and awaits it
StartItem(status, p, stage) ==
  [q \in DOMAIN status |-> IF q = p THEN stage ELSE status[q]]

Running(r) == r \in 1..Len(runs) /\ ~runs[r].done

(***************************************************************************)
(* BatchImageResizer                                                       *)
(***************************************************************************)
IsResizer == tool = "image-resizer"

\* an encoder whose output differs from call to call
BlobSizePerCall(blob) ==
  blob.width * blob.height
    * (IF blob.type = "png" THEN 4 ELSE IF blob.quality = 70 THEN 1 ELSE 2)
    + Len(runs)

\* blob.size: the encoder is taken to be deterministic, the byte count a
\* function of the pixels drawn, the type and the quality
BlobSize(blob) ==
  blob.width * blob.height
    * (IF blob.type = "png" THEN 4 ELSE IF blob.quality = 70 THEN 1 ELSE 2)

\* getFileInfo: the ResizerFile of a file; n numbers the call, which makes
\* the id and the object URL (one URL is created per call)
getFileInfo(n, file) ==
  [id              |-> n,
   originalFile    |-> file,
   previewUrl      |-> <<"image", n, 0>>,
   displayName     |-> file,
   originalWidth   |-> Picture(file).width,
   originalHeight  |-> Picture(file).height,
   originalSize    |-> Picture(file).size,
   processedBlob   |-> NoBlob,
   processedWidth  |-> NoNumber,
   processedHeight |-> NoNumber,
   processedSize   |-> NoNumber]

\* resizeImage, when it resolves: the blob and the size reported
resizeImage(file, maxHeight, format, enableCompression) ==
  LET canvas == resampled.image[file][maxHeight].canvas
      size   == resampled.image[file][maxHeight].size
  IN  [blob   |-> [type    |-> format,
                   source  |-> file,
                   width   |-> canvas.width,
                   height  |-> canvas.height,
                   quality |-> Quality(format, enableCompression)],
       width  |-> size.width,
       height |-> size.height]

\* handleFileChange up to the await: getFileInfo is started for every file
HandleFileChange(sel) ==
  /\ IsResizer
  /\ nextId + Len(sel) <= MaxFiles
  /\ uploads' = uploads \cup
       {[files |-> files,
         detailedFiles |->
           [k \in 1..Len(sel) |->
              getFileInfo(nextId + k, sel[k])]]}
  /\ nextId' = nextId + Len(sel)
  /\ UNCHANGED <<tool, files, newName, outputFormat, resolution, compression,
                 isProcessing, runs, calc>>
  /\ UNCHANGED extractorVars

\* Promise.all resolved: every image decoded
FileChangeResolved(u) ==
  /\ IsResizer
  /\ u \in uploads
  /\ files' = u.files \o u.detailedFiles
  /\ uploads' = uploads \ {u}
  /\ UNCHANGED <<tool, newName, outputFormat, resolution, compression, isProcessing,
                 runs, nextId, calc>>
  /\ UNCHANGED extractorVars

\* Promise.all rejected: some image failed to decode, nothing is published
FileChangeRejected(u) ==
  /\ IsResizer
  /\ u \in uploads
  /\ uploads' = uploads \ {u}
  /\ UNCHANGED <<tool, files, newName, outputFormat, resolution, compression,
                 isProcessing, runs, nextId, calc>>
  /\ UNCHANGED extractorVars

ResizerReset ==
  /\ IsResizer
  /\ files' = <<>>
  /\ newName' = defaultNewName
  /\ outputFormat' = defaultOutputFormat
  /\ resolution' = defaultResolution
  /\ compression' = defaultCompression
  /\ isProcessing' = FALSE
  /\ UNCHANGED <<tool, runs, uploads, nextId, calc>>
  /\ UNCHANGED extractorVars

\* a configuration read from the state of the moment the item is processed
LiveConfig(run) ==
  [newName      |-> newName,
   resolution   |-> resolution,
   outputFormat |-> outputFormat,
   compression  |-> compression]

\* the configuration a run reads: newName, resolution, outputFormat and
\* compression are constants of the render that created handleProcess
ClosureConfig(run) ==
  [newName      |-> run.newName,
   resolution   |-> run.resolution,
   outputFormat |-> run.outputFormat,
   compression  |-> run.compression]

\* a Process button that is disabled for an empty list only
ResizerProcessDisabledWhenEmpty == Len(files) = 0

\* the Process button of the image resizer: disabled={...}
ResizerProcessDisabled == Len(files) = 0 \/ isProcessing

ResizerProcess ==
  /\ IsResizer
  /\ ~ResizerProcessDisabled
  /\ Len(files) # 0
  /\ Len(runs) < MaxRuns
  /\ isProcessing' = TRUE
  /\ runs' = Append(runs,
       [updatedFiles |-> files,
        status       |-> StartItem([p \in 1..Len(files) |-> "waiting"], 1, "processing"),
        newName      |-> newName,
        resolution   |-> resolution,
        outputFormat |-> outputFormat,
        compression  |-> compression,
        done         |-> FALSE])
  /\ UNCHANGED <<tool, files, newName, outputFormat, resolution, compression,
                 uploads, nextId, calc>>
  /\ UNCHANGED extractorVars

\* the loop of the run continues after the item at position p settled
ResizerContinue(r, run, p) ==
  IF p < Len(run.status)
  THEN /\ runs' = [runs EXCEPT ![r] =
                     [run EXCEPT !.status = StartItem(run.status, p + 1, "processing")]]
       /\ UNCHANGED isProcessing
  ELSE /\ runs' = [runs EXCEPT ![r] = Returned(run.status)]
       /\ isProcessing' = FALSE

\* an update that writes the blob and leaves its size for later
ProcessedFileInTwoSteps(file, resized, newDisplayName) ==
  [file EXCEPT !.processedBlob = resized.blob,
               !.processedWidth = resized.width,
               !.processedHeight = resized.height,
               !.displayName = newDisplayName]

\* an update that builds the item anew from the fields it shows
ProcessedFileRebuilt(file, resized, newDisplayName) ==
  [file EXCEPT !.processedBlob = resized.blob,
               !.processedWidth = resized.width,
               !.processedHeight = resized.height,
               !.processedSize = BlobSize(resized.blob),
               !.displayName = newDisplayName,
               !.originalWidth = resized.width,
               !.originalHeight = resized.height,
               !.originalSize = BlobSize(resized.blob)]

\* updatedFiles[i] = {...file, processedBlob, processedWidth, processedHeight,
\* processedSize, displayName}
ProcessedFile(file, resized, newDisplayName) ==
  [file EXCEPT !.processedBlob = resized.blob,
               !.processedWidth = resized.width,
               !.processedHeight = resized.height,
               !.processedSize = BlobSize(resized.blob),
               !.displayName = newDisplayName]

\* resizeImage resolved: the file was read, decoded, drawn and encoded
ResizerResolved(r, p) ==
  /\ IsResizer
  /\ Running(r)
  /\ p \in DOMAIN runs[r].status
  /\ runs[r].status[p] = "processing"
  /\ LET file    == runs[r].updatedFiles[p]
         config  == ClosureConfig(runs[r])
         resized == resizeImage(file.originalFile, config.resolution,
                                config.outputFormat, config.compression)
         newFile == ProcessedFile(file, resized,
                                  ResizerDisplayName(config.newName, p - 1,
                                                     file.displayName,
                                                     config.outputFormat))
         run     == [runs[r] EXCEPT !.updatedFiles[p] = newFile,
                                    !.status[p] = "ok"]
     IN  /\ files' = run.updatedFiles
         /\ ResizerContinue(r, run, p)
  /\ UNCHANGED <<tool, newName, outputFormat, resolution, compression, uploads,
                 nextId, calc>>
  /\ UNCHANGED extractorVars

\* resizeImage rejected and nothing catches it: the error leaves
\* handleProcess before the flag is cleared
ResizerRejectedUncaught(r, p) ==
  /\ IsResizer
  /\ Running(r)
  /\ p \in DOMAIN runs[r].status
  /\ runs[r].status[p] = "processing"
  /\ runs' = [runs EXCEPT ![r] = Returned([runs[r].status EXCEPT ![p] = "failed"])]
  /\ UNCHANGED <<tool, files, newName, outputFormat, resolution, compression,
                 isProcessing, uploads, nextId, calc>>
  /\ UNCHANGED extractorVars

\* resizeImage rejected (reader or image error, no context, no blob): the
\* catch block logs it
ResizerRejected(r, p) ==
  /\ IsResizer
  /\ Running(r)
  /\ p \in DOMAIN runs[r].status
  /\ runs[r].status[p] = "processing"
  /\ ResizerContinue(r, [runs[r] EXCEPT !.status[p] = "failed"], p)
  /\ UNCHANGED <<tool, files, newName, outputFormat, resolution, compression,
                 uploads, nextId, calc>>
  /\ UNCHANGED extractorVars

\* splice the dragged item out and in again
Splice(list, from, to) ==
  LET rest == SubSeq(list, 1, from - 1) \o SubSeq(list, from + 1, Len(list))
  IN  SubSeq(rest, 1, to - 1) \o <<list[from]>> \o SubSeq(rest, to, Len(rest))

ResizerDragSort(from, to) ==
  /\ IsResizer
  /\ from \in 1..Len(files)
  /\ to \in 1..Len(files)
  /\ from # to
  /\ files' = Splice(files, from, to)
  /\ UNCHANGED <<tool, newName, outputFormat, resolution, compression, isProcessing,
                 runs, uploads, nextId, calc>>
  /\ UNCHANGED extractorVars

(***************************************************************************)
(* Configuration edits (both tools).                                       *)
(***************************************************************************)
SetNewName(v) ==
  /\ IsResizer \/ ~isPreviewCollapsed
  /\ v # newName
  /\ newName' = v
  /\ UNCHANGED <<tool, files, outputFormat, resolution, compression, isProcessing,
                 runs, uploads, nextId, calc>>
  /\ UNCHANGED extractorVars

SetOutputFormat(f) ==
  /\ IsResizer \/ ~isPreviewCollapsed
  /\ f # outputFormat
  /\ outputFormat' = f
  /\ UNCHANGED <<tool, files, newName, resolution, compression, isProcessing, runs,
                 uploads, nextId, calc>>
  /\ UNCHANGED extractorVars

\* the resolution select: parseInt of the option's value
SetResolution(v) ==
  /\ IsResizer \/ ~isPreviewCollapsed
  /\ v # resolution
  /\ resolution' = v
  /\ UNCHANGED <<tool, files, newName, outputFormat, compression, isProcessing, runs,
                 uploads, nextId, calc>>
  /\ UNCHANGED extractorVars

\* the Compression button
ToggleCompression ==
  /\ IsResizer \/ ~isPreviewCollapsed
  /\ compression' = ~compression
  /\ UNCHANGED <<tool, files, newName, outputFormat, resolution, isProcessing, runs,
                 uploads, nextId, calc>>
  /\ UNCHANGED extractorVars

(***************************************************************************)
(* VideoFrameExtractor                                                     *)
(***************************************************************************)
IsExtractor == tool = "video-extractor"

VideoA == "a.mp4"

\* extractFrame, when it resolves, for the frame of marker timestamp
extractFrame(timestamp, maxHeight, format, enableCompression) ==
  [blob   |-> [type    |-> format,
               source  |-> timestamp,
               width   |-> resampled.video[maxHeight].canvas.width,
               height  |-> resampled.video[maxHeight].canvas.height,
               quality |-> Quality(format, enableCompression)],
   width  |-> resampled.video[maxHeight].size.width,
   height |-> resampled.video[maxHeight].size.height]

\* the <video> element is rendered: videoRef.current is set
VideoMounted == videoFile # NoFile /\ ~isPreviewCollapsed

\* handleFileChange: handleReset(), then the new video is published
ExtractorFileChange(file) ==
  /\ IsExtractor
  /\ videoFile' = file
  /\ isPreviewCollapsed' = FALSE
  /\ markers' = <<>>
  /\ extractedFrames' = <<>>
  /\ newName' = defaultNewName
  /\ outputFormat' = defaultOutputFormat
  /\ resolution' = defaultResolution
  /\ compression' = defaultCompression
  /\ isProcessing' = FALSE
  /\ currentTime' = 0
  /\ UNCHANGED <<tool, runs, calc>>
  /\ UNCHANGED resizerVars

ExtractorReset ==
  /\ IsExtractor
  /\ videoFile' = NoFile
  /\ isPreviewCollapsed' = FALSE
  /\ markers' = <<>>
  /\ extractedFrames' = <<>>
  /\ newName' = defaultNewName
  /\ outputFormat' = defaultOutputFormat
  /\ resolution' = defaultResolution
  /\ compression' = defaultCompression
  /\ isProcessing' = FALSE
  /\ currentTime' = 0
  /\ UNCHANGED <<tool, runs, calc>>
  /\ UNCHANGED resizerVars

\* handleTimelineUpdate stores the time the user dragged the playhead to
\* (handleTimeUpdate stores the element's time the same way)
HandleTimelineUpdate(newTime) ==
  /\ IsExtractor
  /\ VideoMounted
  /\ newTime # currentTime
  /\ currentTime' = newTime
  /\ UNCHANGED <<tool, newName, outputFormat, resolution, compression, isProcessing,
                 videoFile, markers,
                 extractedFrames, isPreviewCollapsed, runs, calc>>
  /\ UNCHANGED resizerVars

RECURSIVE Insert(_, _)
\* x put before the first element that compares greater
Insert(sorted, x) ==
  IF sorted = <<>> THEN <<x>>
  ELSE IF x - sorted[1] < 0 THEN <<x>> \o sorted
  ELSE <<sorted[1]>> \o Insert(Tail(sorted), x)

RECURSIVE SortAscending(_)
\* Array.prototype.sort((a, b) => a - b): a stable ascending sort
SortAscending(list) ==
  IF list = <<>> THEN <<>>
  ELSE Insert(SortAscending(SubSeq(list, 1, Len(list) - 1)), list[Len(list)])

Includes(list, x) == \E k \in 1..Len(list) : list[k] = x

\* markers.filter(m => m !== timestamp)
Filter(list, timestamp) ==
  LET Keep(m) == m # timestamp IN SelectSeq(list, Keep)

\* the marker appended without the sort
AppendedMarkers(list, t) == list \o <<t>>

\* handleAddMarker: markers plus currentTime, sorted
AddedMarkers(list, t) == SortAscending(list \o <<t>>)

HandleAddMarker ==
  /\ IsExtractor
  /\ VideoMounted
  /\ markers' = IF Includes(markers, currentTime) THEN markers
                ELSE AddedMarkers(markers, currentTime)
  /\ UNCHANGED <<tool, newName, outputFormat, resolution, compression, isProcessing,
                 videoFile,
                 extractedFrames, isPreviewCollapsed, currentTime, runs, calc>>
  /\ UNCHANGED resizerVars

HandleRemoveMarker(timestamp) ==
  /\ IsExtractor
  /\ VideoMounted
  /\ Includes(markers, timestamp)
  /\ markers' = Filter(markers, timestamp)
  /\ UNCHANGED <<tool, newName, outputFormat, resolution, compression, isProcessing,
                 videoFile,
                 extractedFrames, isPreviewCollapsed, currentTime, runs, calc>>
  /\ UNCHANGED resizerVars

\* "Hide Preview"
HidePreview ==
  /\ IsExtractor
  /\ VideoMounted
  /\ isPreviewCollapsed' = TRUE
  /\ UNCHANGED <<tool, newName, outputFormat, resolution, compression, isProcessing,
                 videoFile, markers,
                 extractedFrames, currentTime, runs, calc>>
  /\ UNCHANGED resizerVars

\* "Change Settings": the Process button while the preview is collapsed
ChangeSettings ==
  /\ IsExtractor
  /\ isPreviewCollapsed
  /\ isPreviewCollapsed' = FALSE
  /\ UNCHANGED <<tool, newName, outputFormat, resolution, compression, isProcessing,
                 videoFile, markers,
                 extractedFrames, currentTime, runs, calc>>
  /\ UNCHANGED resizerVars

\* the Process button of the frame extractor: disabled={...}
ExtractorProcessDisabled ==
  ~isPreviewCollapsed /\ (videoFile = NoFile \/ Len(markers) = 0 \/ isProcessing)

ExtractorProcess ==
  /\ IsExtractor
  /\ ~ExtractorProcessDisabled
  /\ ~isPreviewCollapsed
  /\ VideoMounted
  /\ Len(markers) # 0
  /\ Len(runs) < MaxRuns
  /\ isProcessing' = TRUE
  /\ runs' = Append(runs,
       [markers         |-> markers,
        extractedFrames |-> extractedFrames,
        status          |-> StartItem([p \in 1..Len(markers) |-> "waiting"], 1,
                                      "seeking"),
        newFrames       |-> <<>>,
        newName         |-> newName,
        resolution      |-> resolution,
        outputFormat    |-> outputFormat,
        compression     |-> compression,
        done            |-> FALSE])
  /\ UNCHANGED <<tool, newName, outputFormat, resolution, compression, videoFile,
                 markers, extractedFrames,
                 isPreviewCollapsed, currentTime, calc>>
  /\ UNCHANGED resizerVars

\* the promise of the marker at position p resolved: the loop seeks to the
\* next marker, or the run publishes its frames and returns
ExtractorContinue(r, run, p) ==
  IF p < Len(run.status)
  THEN /\ runs' = [runs EXCEPT ![r] =
                     [run EXCEPT !.status = StartItem(run.status, p + 1, "seeking")]]
       /\ UNCHANGED <<extractedFrames, isProcessing, isPreviewCollapsed>>
  ELSE /\ runs' = [runs EXCEPT ![r] = Returned(run.status)]
       /\ extractedFrames' = run.newFrames
       /\ isProcessing' = FALSE
       /\ isPreviewCollapsed' = TRUE

\* onSeeked: the listener is removed, extractFrame draws the frame and
\* calls toBlob
ExtractorSeeked(r, p) ==
  /\ IsExtractor
  /\ Running(r)
  /\ p \in DOMAIN runs[r].status
  /\ runs[r].status[p] = "seeking"
  /\ runs' = [runs EXCEPT ![r].status[p] = "encoding"]
  /\ UNCHANGED <<tool, newName, outputFormat, resolution, compression, isProcessing,
                 videoFile, markers,
                 extractedFrames, isPreviewCollapsed, currentTime, calc>>
  /\ UNCHANGED resizerVars

\* the toBlob callback delivered a blob: the frame is pushed
ExtractorResolved(r, p) ==
  /\ IsExtractor
  /\ Running(r)
  /\ p \in DOMAIN runs[r].status
  /\ runs[r].status[p] = "encoding"
  /\ LET config == ClosureConfig(runs[r])
         drawn == extractFrame(runs[r].markers[p], config.resolution,
                               config.outputFormat, config.compression)
         frame == [timestamp       |-> runs[r].markers[p],
                   previewUrl      |-> <<"frame", r, p>>,
                   processedBlob   |-> drawn.blob,
                   processedWidth  |-> drawn.width,
                   processedHeight |-> drawn.height,
                   processedSize   |-> BlobSize(drawn.blob),
                   displayName     |-> FrameDisplayName(config.newName, p - 1,
                                                        config.outputFormat)]
         run   == [runs[r] EXCEPT !.newFrames = Append(@, frame),
                                  !.status[p] = "ok"]
     IN  ExtractorContinue(r, run, p)
  /\ UNCHANGED <<tool, newName, outputFormat, resolution, compression, videoFile,
                 markers, currentTime, calc>>
  /\ UNCHANGED resizerVars

\* extractFrame rejected (no canvas context after the seek, or no blob):
\* the catch block logs it
ExtractorRejected(r, p) ==
  /\ IsExtractor
  /\ Running(r)
  /\ p \in DOMAIN runs[r].status
  /\ runs[r].status[p] \in {"seeking", "encoding"}
  /\ ExtractorContinue(r, [runs[r] EXCEPT !.status[p] = "failed"], p)
  /\ UNCHANGED <<tool, newName, outputFormat, resolution, compression, videoFile,
                 markers, currentTime, calc>>
  /\ UNCHANGED resizerVars

ExtractorDragSort(from, to) ==
  /\ IsExtractor
  /\ from \in 1..Len(extractedFrames)
  /\ to \in 1..Len(extractedFrames)
  /\ from # to
  /\ extractedFrames' = Splice(extractedFrames, from, to)
  /\ UNCHANGED <<tool, newName, outputFormat, resolution, compression, isProcessing,
                 videoFile, markers,
                 isPreviewCollapsed, currentTime, runs, calc>>
  /\ UNCHANGED resizerVars

MaxMarkers == MaxTime + 1

\* a step of a tool with the <video> element left out of account: the seek
\* a handler starts settles at some later time, which ExtractorSeeked stands for
Core(A) == A /\ UNCHANGED layerVars

ExtractorNext ==
  \/ Core(ExtractorFileChange(VideoA))
  \/ Core(ExtractorReset)
  \/ \E t \in Times : Core(HandleTimelineUpdate(t))
  \/ Core(HandleAddMarker)
  \/ \E t \in Times : Core(HandleRemoveMarker(t))
  \/ Core(HidePreview)
  \/ Core(ChangeSettings)
  \/ Core(ExtractorProcess)
  \/ \E r \in 1..MaxRuns, p \in 1..MaxMarkers : Core(ExtractorSeeked(r, p))
  \/ \E r \in 1..MaxRuns, p \in 1..MaxMarkers : Core(ExtractorResolved(r, p))
  \/ \E r \in 1..MaxRuns, p \in 1..MaxMarkers : Core(ExtractorRejected(r, p))
  \/ \E from \in 1..MaxMarkers, to \in 1..MaxMarkers : Core(ExtractorDragSort(from, to))

ResizerNext ==
  \/ \E sel \in Selections : Core(HandleFileChange(sel))
  \/ \E u \in uploads : Core(FileChangeResolved(u))
  \/ \E u \in uploads : Core(FileChangeRejected(u))
  \/ Core(ResizerReset)
  \/ Core(ResizerProcess)
  \/ \E r \in 1..MaxRuns, p \in 1..MaxFiles : Core(ResizerResolved(r, p))
  \/ \E r \in 1..MaxRuns, p \in 1..MaxFiles : Core(ResizerRejected(r, p))
  \/ \E from \in 1..MaxFiles, to \in 1..MaxFiles : Core(ResizerDragSort(from, to))

Next ==
  \/ ResizerNext
  \/ ExtractorNext
  \/ \E v \in BaseNames : Core(SetNewName(v))
  \/ \E f \in OutputFormats : Core(SetOutputFormat(f))

Spec == Init /\ [][Next]_vars

\* the completion of the asynchronous step run r waits for: the decode or
\* encode of an image, the seek of the video, the encode of a frame
RunStep(r) ==
  \E p \in 1..(MaxFiles + MaxMarkers) :
    \/ ResizerResolved(r, p)
    \/ ResizerRejected(r, p)
    \/ ExtractorSeeked(r, p)
    \/ ExtractorResolved(r, p)
    \/ ExtractorRejected(r, p)

\* The steps that read or write runs and isProcessing, or enable the steps
\* that do: everything but the edits of the base name, of the output format
\* and of the order of the list.
ControlNext ==
  \/ \E sel \in Selections : Core(HandleFileChange(sel))
  \/ \E u \in uploads : Core(FileChangeResolved(u))
  \/ \E u \in uploads : Core(FileChangeRejected(u))
  \/ Core(ResizerReset)
  \/ Core(ResizerProcess)
  \/ Core(ExtractorFileChange(VideoA))
  \/ Core(ExtractorReset)
  \/ \E t \in Times : Core(HandleTimelineUpdate(t))
  \/ Core(HandleAddMarker)
  \/ \E t \in Times : Core(HandleRemoveMarker(t))
  \/ Core(HidePreview)
  \/ Core(ChangeSettings)
  \/ Core(ExtractorProcess)
  \/ \E r \in 1..MaxRuns : Core(RunStep(r))

\* every asynchronous step a run waits for eventually completes
FairSpec ==
  Init /\ [][ControlNext]_vars /\ \A r \in 1..MaxRuns : WF_vars(Core(RunStep(r)))

(***************************************************************************)
(* The frame extractor with its <video> element: one video, the preview    *)
(* shown until a run collapses it.  Assigning video.currentTime starts a   *)
(* seek and abandons the one that was pending; when the seek settles the   *)
(* element is at the target and fires "seeked".                            *)
(***************************************************************************)
\* everything but the <video> element
toolVars == <<tool, files, newName, outputFormat, resolution, compression,
              isProcessing, videoFile, markers,
              extractedFrames, isPreviewCollapsed, currentTime, runs, uploads,
              nextId, calc>>

\* video.currentTime = t
ElementSeek(t) == seekTarget' = t /\ UNCHANGED videoTime

\* the pending seek settles: "seeked" is fired
ElementSettles ==
  /\ seekTarget # NoSeek
  /\ videoTime' = seekTarget
  /\ seekTarget' = NoSeek

\* a <video> element that was just mounted
ElementMounted == videoTime' = 0 /\ seekTarget' = NoSeek

\* the first upload: no element is mounted when handleReset runs
SeekUpload ==
  /\ videoFile = NoFile
  /\ ExtractorFileChange(VideoA)
  /\ ElementMounted

SeekAddMarker == HandleAddMarker /\ UNCHANGED elementVars

\* a press or drag on the timeline
SeekTimeline(newTime) == HandleTimelineUpdate(newTime) /\ ElementSeek(newTime)

\* a seek with the controls of the player
SeekControls(newTime) ==
  /\ IsExtractor
  /\ VideoMounted
  /\ ElementSeek(newTime)
  /\ UNCHANGED toolVars

\* onTimeUpdate: handleTimeUpdate stores the position of the element
SeekTimeUpdate ==
  /\ seekTarget = NoSeek
  /\ HandleTimelineUpdate(videoTime)
  /\ UNCHANGED elementVars

\* handleProcess up to the first await: video.currentTime = markers[0]
SeekProcess == ExtractorProcess /\ ElementSeek(markers[1])

\* "seeked" reaches the listener of run r: extractFrame draws the element
SeekSeeked(r, p) == ExtractorSeeked(r, p) /\ ElementSettles

\* "seeked" with no listener: a seek of the user settles
SeekSettled ==
  /\ \A r \in 1..Len(runs) :
       runs[r].done \/ \A p \in DOMAIN runs[r].status : runs[r].status[p] # "seeking"
  /\ ElementSettles
  /\ UNCHANGED toolVars

\* the loop goes on: video.currentTime = the next marker, or the run
\* collapses the preview and the element is unmounted
SeekContinue(r, p) ==
  IF p < Len(runs[r].status)
  THEN ElementSeek(runs[r].markers[p + 1])
  ELSE ElementMounted

SeekResolved(r, p) == ExtractorResolved(r, p) /\ SeekContinue(r, p)

\* toBlob delivered no blob
SeekRejected(r, p) ==
  /\ Running(r)
  /\ p \in DOMAIN runs[r].status
  /\ runs[r].status[p] = "encoding"
  /\ ExtractorRejected(r, p)
  /\ SeekContinue(r, p)

\* "Change Settings" mounts a new element
SeekChangeSettings == ChangeSettings /\ ElementMounted

InitSeek ==
  /\ tool = "video-extractor"
  /\ Constructed
  /\ calc = NoCalc

\* a step of the extractor and its element, the rest left out of account
Seek(A) == A /\ UNCHANGED <<downloadVars, urlVars, appVars, resampled>>

NextSeek ==
  \/ Seek(SeekUpload)
  \/ Seek(SeekAddMarker)
  \/ \E t \in Times : Seek(SeekTimeline(t))
  \/ \E t \in Times : Seek(SeekControls(t))
  \/ Seek(SeekTimeUpdate)
  \/ Seek(SeekProcess)
  \/ \E r \in 1..MaxRuns, p \in 1..MaxMarkers : Seek(SeekSeeked(r, p))
  \/ Seek(SeekSettled)
  \/ \E r \in 1..MaxRuns, p \in 1..MaxMarkers : Seek(SeekResolved(r, p))
  \/ \E r \in 1..MaxRuns, p \in 1..MaxMarkers : Seek(SeekRejected(r, p))
  \/ Seek(SeekChangeSettings)

SpecSeek == InitSeek /\ [][NextSeek]_vars

(***************************************************************************)
(* Download.  handleDownload puts the processed items into a JSZip         *)
(* container, one zip.file(name, data) call per item in list order, and    *)
(* hands the container to the browser.  zip.file with a name the container *)
(* already holds replaces the data of that entry.                          *)
(***************************************************************************)
\* zip.file that adds an entry whatever the container holds
ZipFileAppended(entries, name, data) ==
  Append(entries, [name |-> name, data |-> data])

\* zip.file that keeps the entry the container holds
ZipFileFirstKept(entries, name, data) ==
  IF \E k \in DOMAIN entries : entries[k].name = name
  THEN entries
  ELSE Append(entries, [name |-> name, data |-> data])

\* zip.file(name, data)
ZipFile(entries, name, data) ==
  IF \E k \in DOMAIN entries : entries[k].name = name
  THEN [k \in DOMAIN entries |->
          IF entries[k].name = name THEN [entries[k] EXCEPT !.data = data]
          ELSE entries[k]]
  ELSE Append(entries, [name |-> name, data |-> data])

RECURSIVE Zipped(_)
\* list.forEach(item => zip.file(item.displayName, item.processedBlob))
Zipped(list) ==
  IF list = <<>> THEN <<>>
  ELSE LET item == list[Len(list)]
       IN  ZipFile(Zipped(SubSeq(list, 1, Len(list) - 1)),
                   item.displayName, item.processedBlob)

\* files.filter(f => f.processedBlob)
ProcessedFiles(list) ==
  LET Processed(f) == f.processedBlob # NoBlob IN SelectSeq(list, Processed)

\* the Download button of the resizer: disabled={...}
ResizerDownloadDisabled ==
  isProcessing \/ ~(\E k \in DOMAIN files : files[k].processedBlob # NoBlob)

\* handleDownload of the resizer
ResizerDownload ==
  /\ IsResizer
  /\ ~ResizerDownloadDisabled
  /\ LET processedFiles == ProcessedFiles(files)
     IN  IF Len(processedFiles) = 0
         THEN UNCHANGED zipBlob
         ELSE zipBlob' = [built |-> TRUE, files |-> Zipped(processedFiles)]
  /\ UNCHANGED <<toolVars, elementVars, urlVars, appVars, resampled>>

\* the Download button of the extractor: disabled={...}
ExtractorDownloadDisabled == isProcessing \/ Len(extractedFrames) = 0

\* handleDownload of the extractor
ExtractorDownload ==
  /\ IsExtractor
  /\ ~ExtractorDownloadDisabled
  /\ IF Len(extractedFrames) = 0
     THEN UNCHANGED zipBlob
     ELSE zipBlob' = [built |-> TRUE, files |-> Zipped(extractedFrames)]
  /\ UNCHANGED <<toolVars, elementVars, urlVars, appVars, resampled>>

\* uploads, runs, reordering and the base name, with the Download buttons
NextDownload ==
  \/ \E sel \in Selections : Core(HandleFileChange(sel))
  \/ \E u \in uploads : Core(FileChangeResolved(u))
  \/ Core(ResizerProcess)
  \/ \E r \in 1..MaxRuns, p \in 1..MaxFiles : Core(ResizerResolved(r, p))
  \/ \E r \in 1..MaxRuns, p \in 1..MaxFiles : Core(ResizerRejected(r, p))
  \/ \E from \in 1..MaxFiles, to \in 1..MaxFiles : Core(ResizerDragSort(from, to))
  \/ \E v \in BaseNames : Core(SetNewName(v))
  \/ ResizerDownload
  \/ Core(ExtractorFileChange(VideoA))
  \/ \E t \in Times : Core(HandleTimelineUpdate(t))
  \/ Core(HandleAddMarker)
  \/ Core(ExtractorProcess)
  \/ \E r \in 1..MaxRuns, p \in 1..MaxMarkers : Core(ExtractorSeeked(r, p))
  \/ \E r \in 1..MaxRuns, p \in 1..MaxMarkers : Core(ExtractorResolved(r, p))
  \/ \E r \in 1..MaxRuns, p \in 1..MaxMarkers : Core(ExtractorRejected(r, p))
  \/ ExtractorDownload

SpecDownload == Init /\ [][NextDownload]_vars

(***************************************************************************)
(* Object URLs.  URL.createObjectURL adds a URL to objectUrls and          *)
(* URL.revokeObjectURL removes it.  The shell unmounts the component of a  *)
(* tool that is closed and keeps its state in toolStates; the component    *)
(* mounted when the tool is opened again renders that state.               *)
(***************************************************************************)
\* everything but the object URLs and the mounting
otherVars == <<elementVars, downloadVars, appVars, resampled>>

PreviewUrls(list) == {list[k].previewUrl : k \in DOMAIN list}

\* the cleanup of the effect on [videoUrl]
VideoUrlCleanup == IF videoUrl # NoUrl THEN {videoUrl} ELSE {}

\* a step of a mounted component that neither creates nor revokes a URL
Mounted(A) == mounted /\ A /\ UNCHANGED urlVars /\ UNCHANGED otherVars

\* a step of a promise: it settles whether the component is mounted or not
Settles(A) == A /\ UNCHANGED urlVars /\ UNCHANGED otherVars

\* getFileInfo creates the preview URL of every file
UrlsFileChange(sel) ==
  /\ mounted
  /\ HandleFileChange(sel)
  /\ objectUrls' = objectUrls \cup
                     {getFileInfo(nextId + k, sel[k]).previewUrl : k \in 1..Len(sel)}
  /\ UNCHANGED <<videoUrl, mounted, urlCount>>
  /\ UNCHANGED otherVars

\* img.onerror of the images that failed revokes their preview URLs
UrlsFileChangeRejected(u) ==
  /\ FileChangeRejected(u)
  /\ \E failed \in SUBSET DOMAIN u.detailedFiles :
       /\ failed # {}
       /\ objectUrls' = objectUrls \ {u.detailedFiles[k].previewUrl : k \in failed}
  /\ UNCHANGED <<videoUrl, mounted, urlCount>>
  /\ UNCHANGED otherVars

\* handleFileChange of the extractor: handleReset, URL.createObjectURL(file),
\* and the cleanup of the effect for the URL that was replaced
UrlsVideoChange(file) ==
  /\ mounted
  /\ urlCount < MaxVideos
  /\ ExtractorFileChange(file)
  /\ LET url == <<"video", urlCount + 1, 0>>
     IN  /\ objectUrls' = (objectUrls \ (PreviewUrls(extractedFrames)
                                          \cup VideoUrlCleanup)) \cup {url}
         /\ videoUrl' = url
  /\ urlCount' = urlCount + 1
  /\ UNCHANGED mounted
  /\ UNCHANGED otherVars

\* handleReset of the extractor revokes the preview URLs of the frames; the
\* effect cleans up the video URL that is no longer in the state
UrlsExtractorReset ==
  /\ mounted
  /\ ExtractorReset
  /\ objectUrls' = objectUrls \ (PreviewUrls(extractedFrames) \cup VideoUrlCleanup)
  /\ videoUrl' = NoUrl
  /\ UNCHANGED <<mounted, urlCount>>
  /\ UNCHANGED otherVars

\* the URLs a run revokes when its loop is over: those of the frames the
\* list held when Process was pressed
RevokedAtEnd(r, p) ==
  IF p = Len(runs[r].status) THEN PreviewUrls(runs[r].extractedFrames) ELSE {}

\* a frame was extracted: URL.createObjectURL(blob)
UrlsExtractorResolved(r, p) ==
  /\ ExtractorResolved(r, p)
  /\ objectUrls' = (objectUrls \cup {<<"frame", r, p>>}) \ RevokedAtEnd(r, p)
  /\ UNCHANGED <<videoUrl, mounted, urlCount>>
  /\ UNCHANGED otherVars

UrlsExtractorRejected(r, p) ==
  /\ ExtractorRejected(r, p)
  /\ objectUrls' = objectUrls \ RevokedAtEnd(r, p)
  /\ UNCHANGED <<videoUrl, mounted, urlCount>>
  /\ UNCHANGED otherVars

\* handleCloseTool: the component is unmounted, its effects are cleaned up
CloseTool ==
  /\ mounted
  /\ mounted' = FALSE
  /\ objectUrls' = objectUrls \ VideoUrlCleanup
  /\ UNCHANGED <<videoUrl, urlCount>>
  /\ UNCHANGED toolVars
  /\ UNCHANGED otherVars

\* handleOpenTool: a new component is mounted on the state the shell kept
OpenTool ==
  /\ ~mounted
  /\ mounted' = TRUE
  /\ currentTime' = 0
  /\ UNCHANGED <<objectUrls, videoUrl, urlCount>>
  /\ UNCHANGED <<tool, files, newName, outputFormat, resolution, compression,
                 isProcessing, videoFile, markers, extractedFrames,
                 isPreviewCollapsed, runs, uploads, nextId, calc>>
  /\ UNCHANGED otherVars

NextUrls ==
  \/ \E sel \in Selections : UrlsFileChange(sel)
  \/ \E u \in uploads : Settles(FileChangeResolved(u))
  \/ \E u \in uploads : UrlsFileChangeRejected(u)
  \/ Mounted(ResizerReset)
  \/ Mounted(ResizerProcess)
  \/ \E r \in 1..MaxRuns, p \in 1..MaxFiles : Settles(ResizerResolved(r, p))
  \/ \E r \in 1..MaxRuns, p \in 1..MaxFiles : Settles(ResizerRejected(r, p))
  \/ UrlsVideoChange(VideoA)
  \/ UrlsExtractorReset
  \/ \E t \in Times : Mounted(HandleTimelineUpdate(t))
  \/ Mounted(HandleAddMarker)
  \/ Mounted(ChangeSettings)
  \/ Mounted(ExtractorProcess)
  \/ \E r \in 1..MaxRuns, p \in 1..MaxMarkers : Settles(ExtractorSeeked(r, p))
  \/ \E r \in 1..MaxRuns, p \in 1..MaxMarkers : UrlsExtractorResolved(r, p)
  \/ \E r \in 1..MaxRuns, p \in 1..MaxMarkers : UrlsExtractorRejected(r, p)
  \/ CloseTool
  \/ OpenTool

SpecUrls == Init /\ [][NextUrls]_vars

(***************************************************************************)
(* The shell.  toolStates maps a tab key to the state object of its tool;  *)
(* a tool publishes a partial state through onChangeState, which adds the  *)
(* type of the tool and calls updateToolState.  A state object is a        *)
(* function from the names of its fields to their values, an absent entry  *)
(* the empty function.  handleOpenTool and handleCloseTool keep three      *)
(* lists of keys and finish their work in a timer.                         *)
(***************************************************************************)
\* everything but the shell
nonShellVars == <<toolVars, elementVars, downloadVars, urlVars, gitVars, gridVars,
                  screenVars, resampled>>

\* toolInfo[switchNumber]: the tool of a tab key
ToolType(key) == IF key = "item-0-0" THEN "image-resizer" ELSE "video-extractor"

\* fields a tool publishes, and values for them
FieldNames == {"newName", "isProcessing"}
FieldValues == {"a", "b"}

\* the partial states a tool can publish
Partials == UNION {[names -> FieldValues] : names \in (SUBSET FieldNames) \ {{}}}

\* an update that stores the partial state in the place of the entry
MergedWithoutExisting(existingState, newState) == newState

\* {...existingState, ...newState}
Merged(existingState, newState) ==
  [f \in DOMAIN existingState \cup DOMAIN newState |->
     IF f \in DOMAIN newState THEN newState[f] ELSE existingState[f]]

\* updateToolState(key, newState): {...prev, [key]: {...existingState, ...newState}}
updateToolState(prev, key, newState) ==
  [prev EXCEPT ![key] = Merged(prev[key], newState)]

\* {...newState, type: ...}: what the onChangeState of a tab passes on
WithType(newState, key) ==
  [f \in DOMAIN newState \cup {"type"} |->
     IF f = "type" THEN ToolType(key) ELSE newState[f]]

Includes2(list, key) == \E i \in DOMAIN list : list[i] = key

\* the component of the tab: rendered for every key of visibleTools
Rendered(key) == Includes2(visibleTools, key)

\* onChangeState of the tool of tab key: called by a handler of the rendered
\* component, or by a promise of a component that was rendered before
OnChangeState(key, newState) ==
  /\ Rendered(key) \/ toolStates[key] # <<>>
  /\ toolStates' = updateToolState(toolStates, key,
                                   WithType(newState, key))
  /\ UNCHANGED <<openTools, visibleTools, closingTools, timers>>
  /\ UNCHANGED nonShellVars

\* list.filter(key => key !== keyToClose)
WithoutKey(list, keyToClose) ==
  LET Keep(key) == key # keyToClose IN SelectSeq(list, Keep)

\* the card of the tab is in the grid: it is left out for a tool that is
\* shown and not closing
CardShown(key) == ~(Includes2(visibleTools, key) /\ ~Includes2(closingTools, key))

\* handleOpenTool(key), up to the timer
HandleOpenTool(key) ==
  /\ CardShown(key)
  /\ Len(timers) < MaxTimers
  /\ IF Includes2(openTools, key) \/ Includes2(closingTools, key)
     THEN UNCHANGED <<visibleTools, timers>>
     ELSE /\ visibleTools' = Append(visibleTools, key)
          /\ timers' = Append(timers, [kind |-> "open", key |-> key])
  /\ UNCHANGED <<toolStates, openTools, closingTools>>
  /\ UNCHANGED nonShellVars

\* handleCloseTool(keyToClose), up to the timer: the close button of a
\* rendered panel
HandleCloseTool(keyToClose) ==
  /\ Rendered(keyToClose)
  /\ Len(timers) < MaxTimers
  /\ closingTools' = Append(closingTools, keyToClose)
  /\ openTools' = WithoutKey(openTools, keyToClose)
  /\ timers' = Append(timers, [kind |-> "close", key |-> keyToClose])
  /\ UNCHANGED <<toolStates, visibleTools>>
  /\ UNCHANGED nonShellVars

\* timers[i] without the timer at position i
TimerRemoved(i) == SubSeq(timers, 1, i - 1) \o SubSeq(timers, i + 1, Len(timers))

\* the 50 ms timer of handleOpenTool fires: it is due before every timer
\* started after it and every 500 ms timer still pending
OpenTimer(i) ==
  /\ i \in DOMAIN timers
  /\ timers[i].kind = "open"
  /\ \A j \in 1..(i - 1) : timers[j].kind # "open"
  /\ openTools' = Append(openTools, timers[i].key)
  /\ timers' = TimerRemoved(i)
  /\ UNCHANGED <<toolStates, visibleTools, closingTools>>
  /\ UNCHANGED nonShellVars

\* the 500 ms timer of handleCloseTool fires: every timer started before
\* it has fired
CloseTimer(i) ==
  /\ i = 1
  /\ i \in DOMAIN timers
  /\ timers[i].kind = "close"
  /\ visibleTools' = WithoutKey(visibleTools, timers[i].key)
  /\ closingTools' = WithoutKey(closingTools, timers[i].key)
  /\ timers' = TimerRemoved(i)
  /\ UNCHANGED <<toolStates, openTools>>
  /\ UNCHANGED nonShellVars

NextShell ==
  \/ \E key \in Keys, newState \in Partials : OnChangeState(key, newState)
  \/ \E key \in Keys : HandleOpenTool(key)
  \/ \E key \in Keys : HandleCloseTool(key)
  \/ \E i \in 1..MaxTimers : OpenTimer(i)
  \/ \E i \in 1..MaxTimers : CloseTimer(i)

SpecShell == Init /\ [][NextShell]_vars

(***************************************************************************)
(* The Git file browser.  A path is the sequence of its directory names    *)
(* (the empty sequence: the root).  fetchFiles publishes the path it was   *)
(* asked for and isLoading, awaits the response of the API, and publishes  *)
(* the sorted listing or an error.  The responses of fetches in flight     *)
(* arrive in any order.                                                    *)
(***************************************************************************)
\* everything but the Git file browser
nonGitVars == <<toolVars, elementVars, downloadVars, urlVars, shellVars, gridVars,
                screenVars, resampled>>

\* the repository: what the API returns for a path, in the order it returns it
Contents(path) ==
  IF path = <<>>
  THEN <<[name |-> "b", type |-> "file", path |-> <<"b">>],
         [name |-> "d", type |-> "dir",  path |-> <<"d">>],
         [name |-> "a", type |-> "file", path |-> <<"a">>]>>
  ELSE <<[name |-> "z", type |-> "file", path |-> path \o <<"z">>],
         [name |-> "c", type |-> "file", path |-> path \o <<"c">>]>>

Letters == <<"a", "b", "c", "d", "z">>

\* a.name.localeCompare(b.name)
LocaleCompare(a, b) ==
  LET Rank(x) == CHOOSE i \in DOMAIN Letters : Letters[i] = x
  IN  Rank(a) - Rank(b)

\* the comparator of fetchFiles: directories first, then by name
CompareFiles(a, b) ==
  IF a.type = "dir" /\ b.type # "dir" THEN -1
  ELSE IF a.type # "dir" /\ b.type = "dir" THEN 1
  ELSE LocaleCompare(a.name, b.name)

RECURSIVE InsertFile(_, _)
InsertFile(sorted, x) ==
  IF sorted = <<>> THEN <<x>>
  ELSE IF CompareFiles(x, sorted[1]) < 0 THEN <<x>> \o sorted
  ELSE <<sorted[1]>> \o InsertFile(Tail(sorted), x)

RECURSIVE SortFiles(_)
\* data.sort(comparator)
SortFiles(data) ==
  IF data = <<>> THEN <<>>
  ELSE InsertFile(SortFiles(SubSeq(data, 1, Len(data) - 1)), data[Len(data)])

\* fetchFiles(path, repoDetails) up to the await
fetchFiles(path) ==
  /\ Len(gitRequests) < MaxRequests
  /\ gitIsLoading' = TRUE
  /\ gitError' = FALSE
  /\ gitCurrentPath' = path
  /\ gitRequests' = Append(gitRequests, path)
  /\ UNCHANGED gitFiles

\* handleLoadRepository with a URL parseGitHubUrl accepts
handleLoadRepository ==
  /\ gitRepoInfo' = TRUE
  /\ fetchFiles(<<>>)

\* the tool is opened: the effect of the first render loads the repository
\* of the default URL
GitOpen ==
  /\ ~gitMounted
  /\ gitMounted' = TRUE
  /\ handleLoadRepository
  /\ UNCHANGED nonGitVars

\* the tool is closed: the component is unmounted, toolStates keeps its state
GitClose ==
  /\ gitMounted
  /\ gitMounted' = FALSE
  /\ UNCHANGED <<gitRepoInfo, gitCurrentPath, gitIsLoading, gitError, gitFiles,
                 gitRequests>>
  /\ UNCHANGED nonGitVars

\* the Load button: disabled={isLoading}
GitLoad ==
  /\ gitMounted
  /\ ~gitIsLoading
  /\ handleLoadRepository
  /\ UNCHANGED gitMounted
  /\ UNCHANGED nonGitVars

\* the Load button with a URL parseGitHubUrl rejects
GitLoadInvalid ==
  /\ gitMounted
  /\ ~gitIsLoading
  /\ gitError' = TRUE
  /\ gitFiles' = <<>>
  /\ UNCHANGED <<gitMounted, gitRepoInfo, gitCurrentPath, gitIsLoading, gitRequests>>
  /\ UNCHANGED nonGitVars

\* handleItemClick on a directory of the listing shown
GitItemClick(k) ==
  /\ gitMounted
  /\ ~gitIsLoading /\ ~gitError
  /\ k \in DOMAIN gitFiles
  /\ gitFiles[k].type = "dir"
  /\ gitRepoInfo
  /\ fetchFiles(gitFiles[k].path)
  /\ UNCHANGED <<gitMounted, gitRepoInfo>>
  /\ UNCHANGED nonGitVars

\* handleBreadcrumbClick: the breadcrumbs are rendered with a listing that
\* is not empty, for a path other than the root, one button for the root and
\* one for every prefix
GitBreadcrumbClick(n) ==
  /\ gitMounted
  /\ ~gitIsLoading /\ ~gitError
  /\ gitFiles # <<>>
  /\ gitCurrentPath # <<>>
  /\ n \in 0..Len(gitCurrentPath)
  /\ gitRepoInfo
  /\ fetchFiles(SubSeq(gitCurrentPath, 1, n))
  /\ UNCHANGED <<gitMounted, gitRepoInfo>>
  /\ UNCHANGED nonGitVars

\* gitRequests without the request at position i
RequestRemoved(i) ==
  SubSeq(gitRequests, 1, i - 1) \o SubSeq(gitRequests, i + 1, Len(gitRequests))

\* the response of the fetch at position i is an array: it is sorted and
\* published
GitResponse(i) ==
  /\ i \in DOMAIN gitRequests
  /\ gitFiles' = SortFiles(Contents(gitRequests[i]))
  /\ gitIsLoading' = FALSE
  /\ gitRequests' = RequestRemoved(i)
  /\ UNCHANGED <<gitMounted, gitRepoInfo, gitCurrentPath, gitError>>
  /\ UNCHANGED nonGitVars

\* the fetch at position i fails, or the API answers with an error
GitFailure(i) ==
  /\ i \in DOMAIN gitRequests
  /\ gitError' = TRUE
  /\ gitIsLoading' = FALSE
  /\ gitFiles' = <<>>
  /\ gitRequests' = RequestRemoved(i)
  /\ UNCHANGED <<gitMounted, gitRepoInfo, gitCurrentPath>>
  /\ UNCHANGED nonGitVars

NextGit ==
  \/ GitOpen
  \/ GitClose
  \/ GitLoad
  \/ GitLoadInvalid
  \/ \E k \in 1..3 : GitItemClick(k)
  \/ \E n \in 0..1 : GitBreadcrumbClick(n)
  \/ \E i \in 1..MaxRequests : GitResponse(i)
  \/ \E i \in 1..MaxRequests : GitFailure(i)

SpecGit == Init /\ [][NextGit]_vars

(***************************************************************************)
(* The grid: a scroll event near the end of the container queues a batch   *)
(* of columns; the next render appends the batches queued, and the effect  *)
(* on [columns] that follows the render clears isLoadingRef.               *)
(***************************************************************************)
\* everything but the grid
nonGridVars == <<toolVars, elementVars, downloadVars, urlVars, shellVars, gitVars,
                 screenVars, resampled>>

RECURSIVE Flattened(_)
\* columns.flatMap(c => c.items); the batches of pendingColumns, in a row
Flattened(lists) ==
  IF lists = <<>> THEN <<>> ELSE lists[1] \o Flattened(Tail(lists))

\* the columns the grid renders: the items of all columns, regrouped
gridColumns ==
  LET allItemsList == Flattened([c \in DOMAIN columns |-> columns[c].items])
  IN  [c \in 1..((Len(allItemsList) + itemsPerColumn - 1) \div itemsPerColumn) |->
         [id    |-> c - 1,
          items |-> SubSeq(allItemsList, (c - 1) * itemsPerColumn + 1,
                           IF c * itemsPerColumn < Len(allItemsList)
                           THEN c * itemsPerColumn ELSE Len(allItemsList))]]

\* scrollWidth (scrollHeight on mobile), in columns
ScrollSize == Len(columns)

\* scrollSize > 0 && scrollPos + clientSize >= scrollSize - buffer
ShouldLoadMore(pos) ==
  ScrollSize > 0 /\ pos + ClientColumns >= ScrollSize - ClientColumns

\* a handleScroll that loads whatever isLoadingRef says
ScrollNeverIgnored == FALSE

\* if (isLoadingRef.current) return
ScrollIgnored == isLoadingRef

\* the container is scrolled to pos: handleScroll
HandleScroll(pos) ==
  /\ pos \in 0..(ScrollSize - ClientColumns)
  /\ scrollPos' = pos
  /\ gearRotation' = pos
  /\ IF ~ScrollIgnored /\ ShouldLoadMore(pos)
     THEN /\ nextColumnIdRef + columnsToAdd <= MaxColumns
          /\ isLoadingRef' = TRUE
          /\ pendingColumns' =
               Append(pendingColumns, generateColumns(columnsToAdd, nextColumnIdRef))
          /\ nextColumnIdRef' = nextColumnIdRef + columnsToAdd
     ELSE UNCHANGED <<isLoadingRef, pendingColumns, nextColumnIdRef>>
  /\ UNCHANGED <<columns, effectPending, isMobile>>
  /\ UNCHANGED nonGridVars

\* the render after setColumns: every updater queued appends its batch
GridRender ==
  /\ pendingColumns # <<>>
  /\ columns' = columns \o Flattened(pendingColumns)
  /\ pendingColumns' = <<>>
  /\ effectPending' = TRUE
  /\ UNCHANGED <<isLoadingRef, nextColumnIdRef, isMobile, scrollPos, gearRotation>>
  /\ UNCHANGED nonGridVars

\* useEffect(() => { isLoadingRef.current = false; }, [columns])
GridEffect ==
  /\ effectPending
  /\ isLoadingRef' = FALSE
  /\ effectPending' = FALSE
  /\ UNCHANGED <<columns, pendingColumns, nextColumnIdRef, isMobile, scrollPos,
                 gearRotation>>
  /\ UNCHANGED nonGridVars

\* the window is resized across the breakpoint: useIsMobile
SwitchMobile ==
  /\ isMobile' = ~isMobile
  /\ UNCHANGED <<columns, pendingColumns, effectPending, isLoadingRef,
                 nextColumnIdRef, scrollPos, gearRotation>>
  /\ UNCHANGED nonGridVars

NextGrid ==
  \/ \E pos \in 0..MaxColumns : HandleScroll(pos)
  \/ GridRender
  \/ GridEffect
  \/ SwitchMobile

SpecGrid == Init /\ [][NextGrid]_vars

(***************************************************************************)
(* The screen size checker: handleLoad publishes displayUrl and isLoading; *)
(* the render that follows writes the src attribute of the iframe only     *)
(* when displayUrl differs from the one rendered before, and the iframe    *)
(* fires load when the page of a src it was given has finished loading.    *)
(***************************************************************************)
\* everything but the screen size checker
nonScreenVars == <<toolVars, elementVars, downloadVars, urlVars, shellVars, gitVars,
                   gridVars, resampled>>

\* what the user types into the URL field
TypedUrls == {<<"https://", "iammazharul.com">>, <<"iammazharul.com">>,
              <<"https://", "b">>, <<" ">>}

DeviceKeys == {"iPhone13ProMax", "iPadMini"}

\* url.startsWith('http://') || url.startsWith('https://')
HasScheme(url) == url # <<>> /\ url[1] \in {"http://", "https://"}

\* the finalUrl of handleLoad
FinalUrl(url) ==
  IF Trim(url) # <<>> /\ ~HasScheme(url) THEN <<"https://">> \o url ELSE url

\* the commit of a render with displayUrl: React writes the src attribute
\* when the prop changed, and the iframe then starts to load it
IframeRendered(displayUrl) ==
  IF displayUrl # iframeSrc
  THEN iframeSrc' = displayUrl /\ iframeLoading' = TRUE
  ELSE UNCHANGED <<iframeSrc, iframeLoading>>

\* the tool is opened: the iframe is created with src = displayUrl
ScreenOpen ==
  /\ ~screenMounted
  /\ screenMounted' = TRUE
  /\ IframeRendered(screenDisplayUrl)
  /\ UNCHANGED <<screenUrl, screenDisplayUrl, screenSelectedDevice, screenOrientation,
                 screenIsLoading>>
  /\ UNCHANGED nonScreenVars

\* the tool is closed: the iframe is removed, toolStates keeps the state
ScreenClose ==
  /\ screenMounted
  /\ screenMounted' = FALSE
  /\ iframeSrc' = NoSrc
  /\ iframeLoading' = FALSE
  /\ UNCHANGED <<screenUrl, screenDisplayUrl, screenSelectedDevice, screenOrientation,
                 screenIsLoading>>
  /\ UNCHANGED nonScreenVars

\* onChange of the URL field
ScreenSetUrl(u) ==
  /\ screenMounted
  /\ screenUrl' = u
  /\ UNCHANGED <<screenMounted, screenDisplayUrl, screenSelectedDevice,
                 screenOrientation, screenIsLoading, iframeSrc, iframeLoading>>
  /\ UNCHANGED nonScreenVars

\* onChange of the device select
ScreenSelectDevice(d) ==
  /\ screenMounted
  /\ screenSelectedDevice' = d
  /\ UNCHANGED <<screenMounted, screenUrl, screenDisplayUrl, screenOrientation,
                 screenIsLoading, iframeSrc, iframeLoading>>
  /\ UNCHANGED nonScreenVars

\* the orientation button
ScreenToggleOrientation ==
  /\ screenMounted
  /\ screenOrientation' =
       IF screenOrientation = "portrait" THEN "landscape" ELSE "portrait"
  /\ UNCHANGED <<screenMounted, screenUrl, screenDisplayUrl, screenSelectedDevice,
                 screenIsLoading, iframeSrc, iframeLoading>>
  /\ UNCHANGED nonScreenVars

\* the Load button, or Enter in the URL field: handleLoad and its render
ScreenHandleLoad ==
  /\ screenMounted
  /\ screenDisplayUrl' = FinalUrl(screenUrl)
  /\ screenIsLoading' = TRUE
  /\ IframeRendered(FinalUrl(screenUrl))
  /\ UNCHANGED <<screenMounted, screenUrl, screenSelectedDevice, screenOrientation>>
  /\ UNCHANGED nonScreenVars

\* the page of the src has finished loading: onLoad, handleIframeLoad
ScreenIframeLoad ==
  /\ screenMounted
  /\ iframeLoading
  /\ iframeLoading' = FALSE
  /\ screenIsLoading' = FALSE
  /\ UNCHANGED <<screenMounted, screenUrl, screenDisplayUrl, screenSelectedDevice,
                 screenOrientation, iframeSrc>>
  /\ UNCHANGED nonScreenVars

NextScreen ==
  \/ ScreenOpen
  \/ ScreenClose
  \/ \E u \in TypedUrls : ScreenSetUrl(u)
  \/ \E d \in DeviceKeys : ScreenSelectDevice(d)
  \/ ScreenToggleOrientation
  \/ ScreenHandleLoad
  \/ ScreenIframeLoad

\* a page whose source is set finishes loading
SpecScreen == Init /\ [][NextScreen]_vars /\ WF_vars(ScreenIframeLoad)

(***************************************************************************)
(* The configuration edited while a run is in flight: one upload, runs,    *)
(* and the four controls of the BatchConfig.                               *)
(***************************************************************************)
NextConfig ==
  \/ /\ files = <<>>
     /\ uploads = {}
     /\ Core(HandleFileChange(<<FileA, FileC>>))
  \/ \E u \in uploads : Core(FileChangeResolved(u))
  \/ Core(ResizerProcess)
  \/ \E r \in 1..MaxRuns, p \in 1..MaxFiles : Core(ResizerResolved(r, p))
  \/ \E r \in 1..MaxRuns, p \in 1..MaxFiles : Core(ResizerRejected(r, p))
  \/ /\ videoFile = NoFile
     /\ Core(ExtractorFileChange(VideoA))
  \/ \E t \in Times : Core(HandleTimelineUpdate(t))
  \/ Core(HandleAddMarker)
  \/ Core(ExtractorProcess)
  \/ \E r \in 1..MaxRuns, p \in 1..MaxMarkers : Core(ExtractorSeeked(r, p))
  \/ \E r \in 1..MaxRuns, p \in 1..MaxMarkers : Core(ExtractorResolved(r, p))
  \/ \E r \in 1..MaxRuns, p \in 1..MaxMarkers : Core(ExtractorRejected(r, p))
  \/ \E v \in BaseNames : Core(SetNewName(v))
  \/ \E f \in OutputFormats : Core(SetOutputFormat(f))
  \/ \E v \in Resolutions : Core(SetResolution(v))
  \/ Core(ToggleCompression)

SpecConfig == Init /\ [][NextConfig]_vars

(***************************************************************************)
(* The resampler on its own: one call of resizeImage or extractFrame on an *)
(* image or video frame of any size up to MaxDim x MaxDim.                 *)
(***************************************************************************)
Dims == 1..MaxDim

InitResample ==
  /\ tool = "image-resizer"
  /\ Constructed
  /\ calc \in [fn : {"resizeImage", "extractFrame"}, width : Dims, height : Dims,
               maxHeight : Dims, out : {NoSize}]

ResizeImage ==
  /\ calc.fn = "resizeImage"
  /\ calc.out = NoSize
  /\ calc' = [calc EXCEPT !.out = resizeImageSize(calc.width, calc.height,
                                                  calc.maxHeight)]
  /\ UNCHANGED <<tool, newName, outputFormat, resolution, compression, isProcessing,
                 runs>>
  /\ UNCHANGED resizerVars
  /\ UNCHANGED extractorVars

ExtractFrame ==
  /\ calc.fn = "extractFrame"
  /\ calc.out = NoSize
  /\ calc' = [calc EXCEPT !.out = extractFrameSize(calc.width, calc.height,
                                                   calc.maxHeight)]
  /\ UNCHANGED <<tool, newName, outputFormat, resolution, compression, isProcessing,
                 runs>>
  /\ UNCHANGED resizerVars
  /\ UNCHANGED extractorVars

NextResample == Core(ResizeImage) \/ Core(ExtractFrame)

SpecResample == InitResample /\ [][NextResample]_vars

(***************************************************************************)
(* Properties.                                                             *)
(***************************************************************************)
Runs == 1..MaxRuns

Started(r) == r \in 1..Len(runs)

Done(r) == Started(r) /\ runs[r].done

\* the step in which run r returns
RunEnds(r) == Running(r) /\ Done(r)'

Settled == {"ok", "failed"}

HasOutput(item) == item.processedBlob # NoBlob

\* the list a resizer run holds when it returns: the one its last publish
\* delivered, or, when the last item failed, the one it held before
ResizerFinalList(r) ==
  IF runs'[r].status[Len(runs'[r].status)] = "ok" THEN files'
  ELSE runs[r].updatedFiles

\* the marker timestamps of the positions a run processed successfully
RECURSIVE OkTimestamps(_, _)
OkTimestamps(status, stamps) ==
  IF status = <<>> THEN <<>>
  ELSE (IF status[1] = "ok" THEN <<stamps[1]>> ELSE <<>>)
       \o OkTimestamps(Tail(status), Tail(stamps))

\* C1: when a batch run ends it has visited every input, and the items
\* that carry a processed output are exactly the items that succeeded in
\* this run; an item that failed carries no processed output.
C1_OutputsAreTheSuccesses ==
  [][\A r \in Runs : RunEnds(r) =>
       /\ \A p \in DOMAIN runs'[r].status : runs'[r].status[p] \in Settled
       /\ IsResizer =>
            \A p \in DOMAIN runs'[r].status :
              HasOutput(ResizerFinalList(r)[p]) <=> runs'[r].status[p] = "ok"
       /\ IsExtractor =>
            /\ [k \in DOMAIN extractedFrames' |-> extractedFrames'[k].timestamp]
                 = OkTimestamps(runs'[r].status, runs[r].markers)
            /\ \A k \in DOMAIN extractedFrames' : HasOutput(extractedFrames'[k])
    ]_vars

\* C2: isProcessing is true in every state in which a batch run has
\* started and has not finished its last item.
C2_ProcessingWhileRunning ==
  \A r \in Runs : Running(r) => isProcessing


\* C3: every batch run that starts eventually runs to completion, and when
\* it completes isProcessing is false, whichever items failed (under
\* FairSpec: every asynchronous step eventually succeeds or fails).
C3_RunsComplete ==
  /\ \A r \in Runs : Started(r) ~> Done(r)
  /\ [][\A r \in Runs : RunEnds(r) => ~isProcessing']_vars

C3_Witness ==
  \E r \in Runs :
    /\ Done(r)
    /\ \E p \in DOMAIN runs[r].status : runs[r].status[p] = "failed"
    /\ ~isProcessing

\* C4: after a Reset pressed during a batch run, the results the run
\* delivers are ignored: the published list stays empty until the next
\* upload.  Resizer: an empty files list is left only by an upload.
\* Extractor: without a video (before the first upload and from a Reset to
\* the next upload) extractedFrames is empty.
C4_ResetDiscardsLateResults ==
  /\ [][(IsResizer /\ files = <<>> /\ ~(\E u \in uploads : FileChangeResolved(u)))
          => files' = <<>>]_vars
  /\ [](IsExtractor /\ videoFile = NoFile => extractedFrames = <<>>)

\* C5: within one run the items are processed one at a time in list order:
\* at most one item is in flight, and an item is started only when the
\* item before it has succeeded or failed.
C5_OneItemAtATime ==
  \A r \in Runs : Running(r) =>
    LET status == runs[r].status IN
    /\ Cardinality({p \in DOMAIN status : status[p] \in InFlight}) <= 1
    /\ \A p \in DOMAIN status :
         (p > 1 /\ status[p] # "waiting") => status[p - 1] \in Settled

C5_Witness ==
  \E r \in Runs :
    /\ Running(r)
    /\ Len(runs[r].status) >= 2
    /\ runs[r].status[1] \in Settled
    /\ runs[r].status[2] \in InFlight

\* the list a run iterates over is there and the tool shows its Process button
InputsPresent ==
  \/ IsResizer /\ Len(files) > 0
  \/ IsExtractor /\ VideoMounted /\ Len(markers) > 0

\* C6 as stated: while a batch run is in flight the user can trigger
\* Process again.
C6_ProcessAlwaysAvailable ==
  ((\E r \in Runs : Running(r)) /\ InputsPresent /\ Len(runs) < MaxRuns)
    => ENABLED (ResizerProcess \/ ExtractorProcess)

\* C6 as amended: a run starts only while isProcessing is false (the Process
\* button is disabled otherwise), and while a run is in flight the flag is
\* cleared only by Reset, by a new video or by the end of a run; after that
\* a second run can start and execute concurrently with the first.
C6_SecondRunOnlyAfterFlagCleared ==
  /\ [][Len(runs') > Len(runs) => ~isProcessing]_vars
  /\ [][((\E r \in Runs : Running(r)) /\ isProcessing /\ ~isProcessing')
          => \/ ResizerReset
             \/ ExtractorReset
             \/ ExtractorFileChange(VideoA)
             \/ \E r \in Runs : RunEnds(r)]_vars

C6_Witness ==
  \E r1, r2 \in Runs : r1 # r2 /\ Running(r1) /\ Running(r2)

\* the name the specification gives an output: <baseName>-<n>.<ext>
ExpectedExtension(format) ==
  IF format = "jpeg" THEN <<"j", "p", "g">> ELSE <<"p", "n", "g">>

ExpectedName(baseName, n, format) ==
  baseName \o <<"-">> \o NumberToString(n) \o <<".">> \o ExpectedExtension(format)

\* the position of a timestamp in a list of markers
PositionOf(stamps, t) == CHOOSE p \in DOMAIN stamps : stamps[p] = t

\* C7: with a non-empty trimmed base name every item processed in a run is
\* named <baseName>-<i+1>.<ext>, i its 0-based position in the list the run
\* iterates over, ext jpg for jpeg and png for png: each publish of the
\* resizer and the frames of the extractor carry these names in list order.
C7_IndexedNames ==
  /\ [][\A r \in Runs, p \in 1..MaxFiles :
          (ResizerResolved(r, p) /\ Trim(runs[r].newName) # <<>>) =>
            \A q \in 1..p :
              (q = p \/ runs[r].status[q] = "ok") =>
                files'[q].displayName =
                  ExpectedName(Trim(runs[r].newName), q, runs[r].outputFormat)
      ]_vars
  /\ [](\A r \in Runs :
          (IsExtractor /\ Running(r) /\ Trim(runs[r].newName) # <<>>) =>
            \A k \in DOMAIN runs[r].newFrames :
              runs[r].newFrames[k].displayName =
                ExpectedName(Trim(runs[r].newName),
                             PositionOf(runs[r].markers, runs[r].newFrames[k].timestamp),
                             runs[r].outputFormat))
  /\ [][\A r \in Runs :
          (IsExtractor /\ RunEnds(r) /\ Trim(runs[r].newName) # <<>>) =>
            \A k \in DOMAIN extractedFrames' :
              extractedFrames'[k].displayName =
                ExpectedName(Trim(runs[r].newName),
                             PositionOf(runs[r].markers, extractedFrames'[k].timestamp),
                             runs[r].outputFormat)
      ]_vars

C7_Witness ==
  /\ Len(files) >= 2
  /\ files[2].displayName = ExpectedName(<<"t">>, 2, "png")
  /\ files[2].originalFile # files[1].originalFile

\* C8: with an empty trimmed base name the resizer names each processed
\* output <stem of the original file name>.<ext>, whatever runs came before.
C8_StemOfOriginalName ==
  [][\A r \in Runs, p \in 1..MaxFiles :
       (ResizerResolved(r, p) /\ Trim(runs[r].newName) = <<>>) =>
         files'[p].displayName =
           StripExtension(files'[p].originalFile) \o <<".">>
             \o ExpectedExtension(runs[r].outputFormat)
    ]_vars

\* the quotient a / b rounded to the nearest integer, halves up
RoundedQuotient(a, b) == (2 * a + b) \div (2 * b)

Abs(x) == IF x < 0 THEN -x ELSE x

Resampled == calc.out # NoSize

Downscaled == calc.height > calc.maxHeight

\* C9 as stated: the size is unchanged when naturalHeight <= maxHeight, and
\* otherwise outHeight = maxHeight and
\* outWidth = round(naturalWidth * maxHeight / naturalHeight).
C9_ExactlyRounded ==
  Resampled =>
    IF Downscaled
    THEN /\ calc.out.height = calc.maxHeight
         /\ calc.out.width = RoundedQuotient(calc.width * calc.maxHeight, calc.height)
    ELSE calc.out = [width |-> calc.width, height |-> calc.height]

\* C9 as amended: the size is unchanged when naturalHeight <= maxHeight, and
\* otherwise outHeight = maxHeight and outWidth is an integer within half a
\* pixel of naturalWidth * maxHeight / naturalHeight (at an exact .5 tie the
\* double product may lie just below the tie and round down).
C9_WithinHalfAPixel ==
  Resampled =>
    IF Downscaled
    THEN /\ calc.out.height = calc.maxHeight
         /\ 2 * Abs(calc.out.width * calc.height - calc.width * calc.maxHeight)
              <= calc.height
    ELSE calc.out = [width |-> calc.width, height |-> calc.height]

\* an exact tie that came out as the lower neighbour
C9_Witness ==
  /\ Resampled
  /\ Downscaled
  /\ (2 * calc.width * calc.maxHeight) % (2 * calc.height) = calc.height
  /\ calc.out.width = (calc.width * calc.maxHeight) \div calc.height

StrictlyAscending(list) ==
  \A i, j \in DOMAIN list : i < j => list[i] < list[j]

\* C10: the marker list is always strictly ascending (so no timestamp is in
\* it twice), adding a timestamp that is a marker leaves it unchanged, and
\* a run visits its markers front to back, that is in ascending order.
C10_MarkersAscending ==
  /\ [](StrictlyAscending(markers))
  /\ [][(HandleAddMarker /\ Includes(markers, currentTime)) => markers' = markers]_vars
  /\ [](\A r \in Runs : (IsExtractor /\ Running(r)) =>
          /\ StrictlyAscending(runs[r].markers)
          /\ \A p, q \in DOMAIN runs[r].status :
               (p < q /\ runs[r].status[q] # "waiting")
                 => runs[r].status[p] # "waiting")

\* a run on its second marker, the smaller marker being the one at the playhead
C10_Witness ==
  /\ Len(markers) = 2
  /\ currentTime = markers[1]
  /\ \E r \in Runs :
       /\ Running(r)
       /\ runs[r].markers = markers
       /\ runs[r].status[2] \in InFlight

\* C11: the frame for marker timestamp t is captured only after the seek
\* to t has completed, with the video positioned at t, also when the user
\* seeks the video during the run.
C11_CapturedAtMarker ==
  [][\A r \in Runs, p \in 1..MaxMarkers :
       ExtractorSeeked(r, p) => videoTime' = runs[r].markers[p]]_vars

\* C12: each processed item is published as soon as it is produced: the
\* step in which item i of a run succeeds leaves its output in the
\* published list (files, extractedFrames), before item i+1 is handled.
C12_PublishedAsProduced ==
  [][\A r \in Runs, p \in 1..(MaxFiles + MaxMarkers) :
       /\ ResizerResolved(r, p) =>
            /\ p \in DOMAIN files'
            /\ files'[p].id = runs[r].updatedFiles[p].id
            /\ HasOutput(files'[p])
       /\ ExtractorResolved(r, p) =>
            \E k \in DOMAIN extractedFrames' :
              /\ extractedFrames'[k].timestamp = runs[r].markers[p]
              /\ HasOutput(extractedFrames'[k])
    ]_vars

\* a step of handleDownload that built a container out of list
Downloaded(list) ==
  \/ IsResizer /\ ResizerDownload /\ list = ProcessedFiles(files)
  \/ IsExtractor /\ ExtractorDownload /\ list = extractedFrames

\* the lists a download can read
Lists == {ProcessedFiles(files), extractedFrames}

DisplayNames(list) == {list[k].displayName : k \in DOMAIN list}

EntryNames(entries) == {entries[e].name : e \in DOMAIN entries}

\* C13 (as stated): Download builds a container with exactly one entry per
\* item that has a processed output, named by the item's display name: n
\* processed items give n entries, and with none no container is built.
C13_OneEntryPerItem ==
  [][/\ \A list \in Lists :
          Downloaded(list) =>
            /\ zipBlob'.built
            /\ Len(zipBlob'.files) = Len(list)
            /\ \A k \in DOMAIN list :
                 \E e \in DOMAIN zipBlob'.files :
                   zipBlob'.files[e].name = list[k].displayName
     /\ zipBlob' # zipBlob =>
          \E list \in Lists : Len(list) > 0 /\ Downloaded(list)
    ]_vars

\* C13 (amended): Download builds a container with exactly one entry per
\* distinct display name among the items that have a processed output, so n
\* entries for n processed items whose display names differ pairwise and
\* fewer when names coincide; with no processed item no container is built.
C13_OneEntryPerName ==
  [][/\ \A list \in Lists :
          Downloaded(list) =>
            /\ zipBlob'.built
            /\ EntryNames(zipBlob'.files) = DisplayNames(list)
            /\ Len(zipBlob'.files) = Cardinality(DisplayNames(list))
     /\ zipBlob' # zipBlob =>
          \E list \in Lists : Len(list) > 0 /\ Downloaded(list)
    ]_vars

\* a container with one entry was built from two processed items of the
\* same display name
C13_Witness ==
  /\ IsResizer
  /\ zipBlob.built
  /\ Len(zipBlob.files) = 1
  /\ Len(ProcessedFiles(files)) = 2
  /\ DisplayNames(ProcessedFiles(files)) = EntryNames(zipBlob.files)

\* the last item of list that carries the display name
LastNamed(list, name) ==
  list[CHOOSE k \in DOMAIN list :
         /\ list[k].displayName = name
         /\ \A j \in DOMAIN list : list[j].displayName = name => j <= k]

\* C14: when several items carry the same display name the container holds
\* a single entry of that name, and its content is the output of the last
\* such item in list order.
C14_LastItemWins ==
  [][\A list \in Lists :
       Downloaded(list) =>
         \A name \in DisplayNames(list) :
           /\ Cardinality({e \in DOMAIN zipBlob'.files :
                             zipBlob'.files[e].name = name}) = 1
           /\ \A e \in DOMAIN zipBlob'.files :
                zipBlob'.files[e].name = name =>
                  zipBlob'.files[e].data = LastNamed(list, name).processedBlob
    ]_vars

\* two processed items of one display name and different outputs, and the
\* container holds the output of the second
C14_Witness ==
  /\ IsResizer
  /\ zipBlob.built
  /\ Len(files) = 2
  /\ files[1].displayName = files[2].displayName
  /\ HasOutput(files[1]) /\ HasOutput(files[2])
  /\ files[1].processedBlob # files[2].processedBlob
  /\ Len(zipBlob.files) = 1
  /\ zipBlob.files[1].name = files[2].displayName
  /\ zipBlob.files[1].data = files[2].processedBlob

\* the BatchConfig of the moment
BatchConfig ==
  [newName      |-> newName,
   resolution   |-> resolution,
   outputFormat |-> outputFormat,
   compression  |-> compression]

\* the BatchConfig recorded with a run
ConfigOf(run) ==
  [newName      |-> run.newName,
   resolution   |-> run.resolution,
   outputFormat |-> run.outputFormat,
   compression  |-> run.compression]

\* C15: every item of a run is processed with the BatchConfig (maximum
\* height, format, compression, base name) that was in force when the run
\* started, whatever the user edits while the run is in flight.
C15_ConfigOfRunStart ==
  [][/\ Len(runs') > Len(runs) => ConfigOf(runs'[Len(runs')]) = BatchConfig
     /\ \A r \in DOMAIN runs :
          ~runs[r].done =>
          /\ r \in DOMAIN runs'
          /\ runs'[r].done \/ ConfigOf(runs'[r]) = ConfigOf(runs[r])
          /\ \A p \in 1..(MaxFiles + MaxMarkers) :
               /\ ResizerResolved(r, p) =>
                    LET c    == ConfigOf(runs[r])
                        file == runs[r].updatedFiles[p]
                        out  == resizeImage(file.originalFile, c.resolution,
                                            c.outputFormat, c.compression)
                    IN  /\ files'[p].processedBlob = out.blob
                        /\ files'[p].processedWidth = out.width
                        /\ files'[p].processedHeight = out.height
                        /\ files'[p].displayName =
                             ResizerDisplayName(c.newName, p - 1,
                                                file.displayName, c.outputFormat)
               /\ ExtractorResolved(r, p) =>
                    LET c     == ConfigOf(runs[r])
                        out   == extractFrame(runs[r].markers[p], c.resolution,
                                              c.outputFormat, c.compression)
                        frame == IF runs'[r].done
                                 THEN extractedFrames'[Len(extractedFrames')]
                                 ELSE runs'[r].newFrames[Len(runs'[r].newFrames)]
                    IN  /\ frame.processedBlob = out.blob
                        /\ frame.processedWidth = out.width
                        /\ frame.processedHeight = out.height
                        /\ frame.displayName =
                             FrameDisplayName(c.newName, p - 1, c.outputFormat)
    ]_vars

\* a run in flight whose first item is processed, every field of the
\* BatchConfig edited since the run started: the item came out as the
\* configuration of the run asks, which the configuration of the moment
\* does not
C15_Witness ==
  /\ IsResizer
  /\ Len(runs) = 1 /\ Len(files) = 2
  /\ ~runs[1].done
  /\ runs[1].status[1] = "ok"
  /\ runs[1].newName # newName
  /\ runs[1].resolution # resolution
  /\ runs[1].outputFormat # outputFormat
  /\ runs[1].compression # compression
  /\ files[1].processedBlob.type = runs[1].outputFormat
  /\ files[1].processedBlob.type # outputFormat
  /\ files[1].processedHeight = runs[1].resolution
  /\ files[1].processedHeight # resolution

\* C16: the preview object URLs of the items are released on Reset, in the
\* resizer and in the extractor, so the URLs alive do not grow over cycles
\* of upload and Reset.
C16_PreviewUrlsReleased ==
  [][/\ IsResizer /\ ResizerReset => PreviewUrls(files) \cap objectUrls' = {}
     /\ IsExtractor /\ ExtractorReset =>
          PreviewUrls(extractedFrames) \cap objectUrls' = {}
    ]_vars

\* C17: the object URL of the video preview is released exactly when it
\* stops being the current one (replaced, Reset, teardown): no other video
\* URL is alive, and the URL of the current video is alive while the
\* component is mounted.
C17_CurrentVideoUrlAlive ==
  /\ \A url \in objectUrls : url[1] = "video" => url = videoUrl
  /\ mounted /\ videoUrl # NoUrl => videoUrl \in objectUrls

\* every BatchConfig the controls can set
Configs ==
  [newName : BaseNames, resolution : Resolutions, outputFormat : OutputFormats,
   compression : BOOLEAN]

EndsWith(s, suffix) ==
  /\ Len(s) >= Len(suffix)
  /\ SubSeq(s, Len(s) - Len(suffix) + 1, Len(s)) = suffix

\* the item carries no processed output at all
Unprocessed(item) ==
  /\ item.processedBlob = NoBlob
  /\ item.processedWidth = NoNumber
  /\ item.processedHeight = NoNumber
  /\ item.processedSize = NoNumber

\* the processed output of the item and its display name are those of one
\* successful call of the pipeline on its original file under c
ProcessedUnder(item, c) ==
  LET out == resizeImage(item.originalFile, c.resolution, c.outputFormat,
                         c.compression)
  IN  /\ item.processedBlob = out.blob
      /\ item.processedWidth = out.width
      /\ item.processedHeight = out.height
      /\ item.processedSize = BlobSize(out.blob)
      /\ EndsWith(item.displayName, NewExtension(c.outputFormat))
      /\ Trim(c.newName) # <<>> =>
           \E i \in 0..(MaxFiles - 1) :
             item.displayName =
               ResizerDisplayName(c.newName, i, item.displayName, c.outputFormat)

\* C18: a ProcessedItem is never partially written: every item of the image
\* resizer has none or all of processedBlob, processedWidth, processedHeight
\* and processedSize, and when present they come from one successful run of
\* the pipeline, together with the display name.
C18_NeverPartiallyWritten ==
  \A k \in DOMAIN files :
    \/ Unprocessed(files[k])
    \/ \E c \in Configs : ProcessedUnder(files[k], c)

\* the first item was processed by a run under a configuration edited in
\* every field, the second item of the run is still unprocessed
C18_Witness ==
  /\ IsResizer
  /\ Len(files) = 2
  /\ \E c \in Configs :
       /\ c.newName # defaultNewName
       /\ c.resolution # defaultResolution
       /\ c.outputFormat # defaultOutputFormat
       /\ c.compression # defaultCompression
       /\ ProcessedUnder(files[1], c)
  /\ Unprocessed(files[2])

\* the fields of a SourceItem other than the display name
Source(item) ==
  <<item.id, item.originalFile, item.previewUrl, item.originalWidth,
    item.originalHeight, item.originalSize>>

\* C19: a SourceItem is immutable apart from its display name: no step
\* (processing, reprocessing, reordering, configuration edits) changes the
\* id, original file, preview URL, original width, height or byte size of
\* an item.
C19_SourceImmutable ==
  [][\A j \in DOMAIN files, k \in DOMAIN files' :
       files'[k].id = files[j].id => Source(files'[k]) = Source(files[j])]_vars

\* an item that was moved to the front, processed under an edited
\* configuration and renamed still has the fields getFileInfo gave it
C19_Witness ==
  /\ IsResizer
  /\ Len(files) = 2
  /\ files[1].id > files[2].id
  /\ HasOutput(files[1])
  /\ files[1].displayName # files[1].originalFile
  /\ files[1].processedBlob.type # defaultOutputFormat
  /\ Source(files[1]) = Source(getFileInfo(files[1].id, files[1].originalFile))

\* the item at position p was last processed with the format, quality and
\* height that configuration c gives it
LastProcessedUnder(item, c) ==
  /\ HasOutput(item)
  /\ item.processedBlob.type = c.outputFormat
  /\ item.processedBlob.quality = Quality(c.outputFormat, c.compression)
  /\ item.processedHeight =
       IF item.originalHeight > c.resolution THEN c.resolution
       ELSE item.originalHeight

QualityAsked(c, q) ==
  /\ c.outputFormat = "jpeg" /\ c.compression => q = 70
  /\ c.outputFormat = "jpeg" /\ ~c.compression => q = 100
  /\ c.outputFormat = "png" => q = NoNumber

\* C21: the quality passed to the encoder is 0.7 for JPEG with compression
\* enabled, 1.0 for JPEG with compression disabled, and none for PNG
\* whatever the compression toggle, for images and for video frames.
C21_QualityParameter ==
  [][\A r \in DOMAIN runs, p \in 1..(MaxFiles + MaxMarkers) :
       /\ ResizerResolved(r, p) =>
            QualityAsked(ConfigOf(runs[r]), files'[p].processedBlob.quality)
       /\ ExtractorResolved(r, p) =>
            LET frame == IF runs'[r].done
                         THEN extractedFrames'[Len(extractedFrames')]
                         ELSE runs'[r].newFrames[Len(runs'[r].newFrames)]
            IN  QualityAsked(ConfigOf(runs[r]), frame.processedBlob.quality)
    ]_vars

\* one item encoded as JPEG at quality 1.0, the other as PNG with no quality
C21_Witness ==
  /\ IsResizer
  /\ Len(files) = 2
  /\ files[1].processedBlob.type = "jpeg"
  /\ files[1].processedBlob.quality = 100
  /\ files[2].processedBlob.type = "png"
  /\ files[2].processedBlob.quality = NoNumber

\* C22: the shell keeps the tool states in one mapping keyed by tab key; an
\* update for key k with a partial state changes the entry of k only, and in
\* it the fields the partial names only, also for a tool that was closed.
C22_UpdateIsLocal ==
  [][\A k \in Keys :
       toolStates'[k] # toolStates[k] =>
         /\ \A j \in Keys \ {k} : toolStates'[j] = toolStates[j]
         /\ \E newState \in Partials :
              LET named == DOMAIN newState \cup {"type"}
              IN  /\ OnChangeState(k, newState)
                  /\ DOMAIN toolStates'[k] = DOMAIN toolStates[k] \cup named
                  /\ \A f \in DOMAIN toolStates[k] \ named :
                       toolStates'[k][f] = toolStates[k][f]
                  /\ \A f \in DOMAIN newState : toolStates'[k][f] = newState[f]
    ]_vars

\* both tabs hold a state written by several updates, and the first tab was
\* closed since: its panel is gone, its state is kept
C22_Witness ==
  /\ toolStates["item-0-0"] =
       [type |-> "image-resizer", newName |-> "a", isProcessing |-> "b"]
  /\ toolStates["item-0-1"] =
       [type |-> "video-extractor", newName |-> "b", isProcessing |-> "a"]
  /\ ~Rendered("item-0-0")
  /\ Rendered("item-0-1")
  /\ timers = <<>>

\* C23: the bookkeeping of open and closed tabs is consistent for every
\* interleaving of handleOpenTool, handleCloseTool and their timers:
\* whenever no timer is pending closingTools is empty and every key of
\* openTools is in visibleTools, so a tool that is not shown can be opened.
C23_BookkeepingConsistent ==
  timers = <<>> =>
    /\ closingTools = <<>>
    /\ \A i \in DOMAIN openTools : Includes2(visibleTools, openTools[i])
    /\ \A key \in Keys :
         ~Rendered(key) =>
           ~(Includes2(openTools, key) \/ Includes2(closingTools, key))

\* C24: no selected image is lost to an interleaving: once every upload in
\* flight and every run has finished, every file that was selected and
\* decoded is in the list (no Reset and no failed decode under
\* SpecDownload: every id handed out belongs to such a file).
C24_NoSelectedImageLost ==
  (IsResizer /\ uploads = {} /\ \A r \in DOMAIN runs : runs[r].done) =>
    \A n \in 1..nextId : \E k \in DOMAIN files : files[k].id = n

\* C25: the frame extractor never holds a released resource as its current
\* video: whenever the component is mounted with a videoUrl in its state the
\* URL has not been revoked, also after the tool was closed and opened again.
C25_CurrentVideoNotRevoked ==
  (IsExtractor /\ mounted /\ videoUrl # NoUrl) => videoUrl \in objectUrls

\* C26: when a file of a selection of several cannot be decoded, the other
\* files of the selection are added to the list and the preview URL of the
\* failed file is released.
C26_OtherFilesStillAdded ==
  [][\A u \in uploads :
       (FileChangeRejected(u) /\ Len(u.detailedFiles) > 1) =>
         LET failed == {k \in DOMAIN u.detailedFiles :
                          u.detailedFiles[k].previewUrl \notin objectUrls'}
         IN  /\ failed # {}
             /\ \A k \in DOMAIN u.detailedFiles \ failed :
                  \E j \in DOMAIN files' : files'[j].id = u.detailedFiles[k].id
    ]_vars

\* C27: in the Git file browser the listing shown belongs to the path
\* shown: whenever a repository was loaded, isLoading is false and error is
\* null, files is the sorted listing of currentPath, also when two requests
\* are in flight and their responses arrive in either order.
C27_ListingOfPathShown ==
  (gitRepoInfo /\ ~gitIsLoading /\ ~gitError) =>
    gitFiles = SortFiles(Contents(gitCurrentPath))

\* the size of the canvas the pixels were drawn on
CanvasSize ==
  IF calc.fn = "resizeImage"
  THEN resizeImageCanvas(calc.width, calc.height, calc.maxHeight)
  ELSE extractFrameCanvas(calc.width, calc.height, calc.maxHeight)

\* C28: the size reported for an output (processedWidth, processedHeight:
\* the rounded scaled size) is the size of the canvas the output was encoded
\* from (the unrounded size assigned to canvas.width and canvas.height).
C28_ReportedSizeIsCanvasSize ==
  calc.out # NoSize => calc.out = CanvasSize

\* the keys of the items of the columns, one entry per item
ItemKeys(cols) ==
  LET items == Flattened([c \in DOMAIN cols |-> cols[c].items])
  IN  [i \in DOMAIN items |-> items[i].key]

\* the ids are 0..n-1 in order, n = 8 + 4k, and no key occurs twice
WellNumbered(cols) ==
  /\ \A c \in DOMAIN cols : cols[c].id = c - 1
  /\ \E k \in 0..MaxColumns : Len(cols) = initialColumnsCount + columnsToAdd * k
  /\ \A i, j \in DOMAIN ItemKeys(cols) :
       ItemKeys(cols)[i] = ItemKeys(cols)[j] => i = j

\* a scroll event arrives
ScrollEvent == \E pos \in 0..MaxColumns : HandleScroll(pos)

\* C29: after any sequence of scroll events, renders and mobile/desktop
\* switches, the columns (as kept and as rendered) have the ids 0..n-1 in
\* order with n = 8 + 4k, the item keys are pairwise distinct, nextColumnId
\* is n once the pending loads are rendered, and a scroll event that
\* arrives while isLoading is set adds no columns.
C29_GridWellNumbered ==
  /\ [](/\ WellNumbered(columns)
        /\ WellNumbered(gridColumns)
        /\ nextColumnIdRef = Len(columns) + Len(Flattened(pendingColumns))
        /\ pendingColumns = <<>> => nextColumnIdRef = Len(columns))
  /\ [][(isLoadingRef /\ ScrollEvent) =>
          UNCHANGED <<columns, pendingColumns, nextColumnIdRef>>]_vars

\* a load was rendered, the next one is pending, and the container was
\* scrolled away from the end since
C29_Witness ==
  /\ Len(columns) > initialColumnsCount
  /\ isLoadingRef
  /\ pendingColumns # <<>>
  /\ ~ShouldLoadMore(scrollPos)

\* C30: in the screen size checker, as long as the tool stays open, a load
\* is eventually followed by isLoading becoming false, also when Load is
\* pressed with the URL already displayed.
C30_LoadEventuallyCleared ==
  (screenMounted /\ screenIsLoading) ~> (~screenIsLoading \/ ~screenMounted)
====
